---- MODULE Spec2Model ----
(***************************************************************************)
(* State-machine model of the provisioner's persistence layer:             *)
(*   provisioner/utils.py                 normalize_mac                    *)
(*   provisioner/inventory.py             load_inventory, set_inventory    *)
(*   provisioner/persistence/backup.py    BackupManager                    *)
(*   provisioner/persistence/yaml_repository.py   YAMLRepository           *)
(*                                                                         *)
(* Files are modelled by their content (a parsed document, or a truncated  *)
(* file) and their modification time.  Every repository operation is a     *)
(* sequence of steps, one per file-system call, so that the states between *)
(* two file writes of one operation are states of the model.  An I/O call  *)
(* may fail; the number of failures in one behaviour is bounded.           *)
(***************************************************************************)
EXTENDS Integers, Sequences, FiniteSets, TLC

\* ------------------------------------------------------------------ bounds
\* The retention limit of the backup manager where the rotation is observed.
Retention == 2
\* config.retry_max_attempts is drawn from 0..MaxAttempts.
MaxAttempts == 3
\* Number of repository operations started in one behaviour.
MaxOps == 2
\* Number of I/O failures injected in one behaviour.
MaxFaults == 2
\* The wall clock runs over the seconds 0..MaxTime.
MaxTime == 1

VARIABLES
    fs,            \* path -> file: the inventory directory and the secrets file
    backups,       \* backup name -> file: the .backups directory
    inventory,     \* inventory._inventory, the live snapshot readers use
    secrets_file,  \* YAMLRepository.secrets_file is not None
    proc,          \* caller -> its position in an operation and its locals
    callers,       \* the callers that issue operations
    now,           \* the wall clock, in seconds
    nops,          \* operations started so far
    faults,        \* I/O failures injected so far
    max_backups,   \* BackupManager.max_backups, the retention limit
    ami            \* the AMIClient, its configuration and its caller

vars ==
    <<fs, backups, inventory, secrets_file, proc, callers, now, nops, faults,
      max_backups, ami>>

\* The repository and its callers, which the AMI client does not touch.
repository ==
    <<fs, backups, inventory, secrets_file, proc, callers, now, nops, faults,
      max_backups>>

\* ------------------------------------------------------------ dictionaries
\* A Python dict is a function whose domain is its set of keys.
EmptyDict == [k \in {} |-> TRUE]

Get(d, k, default) == IF k \in DOMAIN d THEN d[k] ELSE default

Put(d, k, v) == [x \in (DOMAIN d) \cup {k} |-> IF x = k THEN v ELSE d[x]]

Del(d, k) == [x \in (DOMAIN d) \ {k} |-> d[x]]

\* list.pop(i), 1-based
\* Mutant of Pop: the last element is removed.
Pop_last(s, i) == SubSeq(s, 1, Len(s) - 1)

Pop(s, i) == [j \in 1..(Len(s) - 1) |-> IF j < i THEN s[j] ELSE s[j + 1]]

\* ------------------------------------------------------- hardware identifier
\* A string is a sequence of one-character strings.
Hex == {"0", "1", "2", "3", "4", "5", "6", "7", "8", "9",
        "a", "b", "c", "d", "e", "f"}
Whitespace == {" ", "\n"}

mac1 == <<"0","0","1","5","6","5","a","a","b","b","c","c">>
mac2 == <<"0","0","1","5","6","5","a","a","b","b","c","d">>

\* Spellings a caller may give: "00:15:65:AA:BB:CC", " 0015.65aa.bbcc ",
\* "001565aabbcc", "00-15-65-AA-BB-CD" and the malformed "00:15:65".
RawMacs ==
    { <<"0","0",":","1","5",":","6","5",":","A","A",":","B","B",":","C","C">>,
      <<" ","0","0","1","5",".","6","5","a","a",".","b","b","c","c"," ">>,
      mac1,
      <<"0","0","-","1","5","-","6","5","-","A","A","-","B","B","-","C","D">>,
      <<"0","0",":","1","5",":","6","5">> }

\* The identifiers update_phone and delete_phone are called with:
\* "001565aabbcc", "00-15-65-AA-BB-CD" and the malformed "00:15:65".
MacArgs ==
    { mac1,
      <<"0","0","-","1","5","-","6","5","-","A","A","-","B","B","-","C","D">>,
      <<"0","0",":","1","5",":","6","5">> }

\* str.lower()
Lower(c) ==
    CASE c = "A" -> "a" [] c = "B" -> "b" [] c = "C" -> "c"
      [] c = "D" -> "d" [] c = "E" -> "e" [] c = "F" -> "f"
      [] OTHER -> c

RECURSIVE LStrip(_)
LStrip(s) == IF s # <<>> /\ Head(s) \in Whitespace THEN LStrip(Tail(s)) ELSE s

RECURSIVE RStrip(_)
RStrip(s) ==
    IF s # <<>> /\ s[Len(s)] \in Whitespace THEN RStrip(SubSeq(s, 1, Len(s) - 1)) ELSE s

\* str.strip()
Strip(s) == RStrip(LStrip(s))

IsSeparator(c) == c \in {":", "-", "."}

\* re.match(r"^[0-9a-f]{12}$", mac_clean): without re.MULTILINE, $ matches at
\* the end of the string and also before a newline that ends it.
Matches12Hex(mac_clean) ==
    /\ Len(mac_clean) >= 12
    /\ \A i \in 1..12 : mac_clean[i] \in Hex
    /\ \/ Len(mac_clean) = 12
       \/ Len(mac_clean) = 13 /\ mac_clean[13] = "\n"

\* utils.normalize_mac: [ok, value]; ok = FALSE is the ValueError.
normalize_mac(mac) ==
    LET lowered   == [i \in 1..Len(Strip(mac)) |-> Lower(Strip(mac)[i])]
        mac_clean == SelectSeq(lowered, LAMBDA c : ~IsSeparator(c))
    IN  IF Matches12Hex(mac_clean)
        THEN [ok |-> TRUE, value |-> mac_clean]
        ELSE [ok |-> FALSE, value |-> <<>>]

Upper(c) ==
    CASE c = "a" -> "A" [] c = "b" -> "B" [] c = "c" -> "C"
      [] c = "d" -> "D" [] c = "e" -> "E" [] c = "f" -> "F"
      [] OTHER -> c

\* str.upper()
upper(s) == [i \in 1..Len(s) |-> Upper(s[i])]

\* separator.join of the groups of n characters of the first 12.
Grouped(s, n, separator) ==
    LET RECURSIVE From(_)
        From(i) == IF i + n > 12 THEN SubSeq(s, i, i + n - 1)
                   ELSE SubSeq(s, i, i + n - 1) \o separator \o From(i + n)
    IN  From(1)

\* Mutant of format_mac: the dotted form has three groups of two pairs,
\* the last one cut short.
format_mac_short(mac, separator, uppercase) ==
    LET n == normalize_mac(mac)
        mac_clean == IF uppercase THEN upper(n.value) ELSE n.value
    IN  IF ~n.ok THEN n
        ELSE [ok |-> TRUE,
              value |-> IF separator = <<>> THEN mac_clean
                        ELSE IF separator = <<".">>
                        THEN SubSeq(Grouped(mac_clean, 4, separator), 1, 13)
                        ELSE Grouped(mac_clean, 2, separator)]

\* utils.format_mac, lines 43-56: [ok, value].
format_mac(mac, separator, uppercase) ==
    LET n == normalize_mac(mac)
        mac_clean == IF uppercase THEN upper(n.value) ELSE n.value
    IN  IF ~n.ok THEN n
        ELSE [ok |-> TRUE,
              value |-> IF separator = <<>> THEN mac_clean
                        ELSE IF separator = <<".">> THEN Grouped(mac_clean, 4, separator)
                        ELSE Grouped(mac_clean, 2, separator)]

\* utils.get_mac_oui, lines 68-69: [ok, value].
get_mac_oui(mac) ==
    LET n == normalize_mac(mac)
    IN  IF ~n.ok THEN n ELSE [ok |-> TRUE, value |-> upper(SubSeq(n.value, 1, 6))]

\* vendor.lower(), for the vendor names of the tables.
lower_name(vendor) == IF vendor = "Fanvil" THEN "fanvil" ELSE vendor

\* Line 86: p.upper().replace(":", "").replace("-", "")
NormalizedPrefix(prefix) == SelectSeq(upper(prefix), LAMBDA c : c \notin {":", "-"})

\* utils.detect_vendor, lines 82-90: oui_map is the dict in its order, a
\* sequence of [vendor, prefixes]; the result is [ok, value], value "None"
\* for None.
detect_vendor(mac, oui_map) ==
    LET oui == get_mac_oui(mac)
        hit(i) == \E j \in 1..Len(oui_map[i].prefixes) :
                     NormalizedPrefix(oui_map[i].prefixes[j]) = oui.value
        hits == {i \in 1..Len(oui_map) : hit(i)}
    IN  IF ~oui.ok THEN [ok |-> FALSE, value |-> "None"]
        ELSE IF hits = {} THEN [ok |-> TRUE, value |-> "None"]
        ELSE [ok |-> TRUE,
              value |-> lower_name(oui_map[CHOOSE i \in hits : \A k \in hits : i <= k].vendor)]

\* ------------------------------------------------------------------- files
PHONES == "phones.yml"
PHONEBOOK == "phonebook.yml"
SECRETS == "secrets.yml"

Targets == {PHONES, PHONEBOOK, SECRETS}

\* Path.with_suffix(".tmp")
with_suffix(f) ==
    CASE f = PHONES -> "phones.tmp"
      [] f = PHONEBOOK -> "phonebook.tmp"
      [] f = SECRETS -> "secrets.tmp"

Paths == Targets \cup {with_suffix(f) : f \in Targets}

\* Path.stem
stem(f) ==
    CASE f = PHONES -> "phones"
      [] f = PHONEBOOK -> "phonebook"
      [] f = SECRETS -> "secrets"

\* kind: "none" (no such file), "doc" (the complete serialization of doc),
\* "empty" (zero bytes: the file was opened for writing and nothing written),
\* "partial" (an incomplete serialization).
NoFile == [kind |-> "none", doc |-> EmptyDict, mtime |-> 0]

DocFile(d, t) == [kind |-> "doc", doc |-> d, mtime |-> t]

EmptyFile(t) == [kind |-> "empty", doc |-> EmptyDict, mtime |-> t]

PartialFile(t) == [kind |-> "partial", doc |-> EmptyDict, mtime |-> t]

\* Path.exists()
exists(fsys, f) == fsys[f].kind # "none"

\* The bytes of a file, without its metadata.
Content(file) == [kind |-> file.kind, doc |-> file.doc]

\* yaml.safe_load(f) or {}: [ok, data]; an empty file loads as None.
safe_load(file) ==
    CASE file.kind = "doc" -> [ok |-> TRUE, data |-> file.doc]
      [] file.kind = "empty" -> [ok |-> TRUE, data |-> EmptyDict]
      [] OTHER -> [ok |-> FALSE, data |-> EmptyDict]

\* YAMLRepository._load_yaml: {} when the file is missing; ok = FALSE is the
\* PersistenceError.
_load_yaml(fsys, f) ==
    IF ~exists(fsys, f) THEN [ok |-> TRUE, data |-> EmptyDict] ELSE safe_load(fsys[f])

\* --------------------------------------------------------------- inventory
\* inventory.GlobalSettings: the field defaults.
GlobalSettings ==
    [pbx_server |-> "pbx.example.com", pbx_port |-> 5060, transport |-> "UDP",
     ntp_server |-> "pool.ntp.org", timezone |-> "America/New_York",
     codecs |-> <<"PCMU", "PCMA", "G722">>]

\* GlobalSettings(**d): every key d gives overrides the default.
ParseGlobalSettings(d) ==
    [k \in DOMAIN GlobalSettings |-> IF k \in DOMAIN d THEN d[k] ELSE GlobalSettings[k]]

PhoneRequired == {"mac", "model", "extension", "display_name", "password"}

\* The optional overrides; a key that is absent is the field's default, None.
PhoneOptional == {"pbx_server", "pbx_port", "transport", "label", "codecs"}

\* Mutant of PhoneEntry: the validator checks the mac and keeps the spelling.
PhoneEntry_keeps_spelling(d) ==
    IF PhoneRequired \subseteq DOMAIN d /\ normalize_mac(d["mac"]).ok
    THEN [ok |-> TRUE, value |-> [k \in PhoneRequired |-> d[k]]]
    ELSE [ok |-> FALSE, value |-> EmptyDict]

\* inventory.PhoneEntry(**d): [ok, value]; ok = FALSE is pydantic's
\* ValidationError (a required field is missing, or the mac is malformed).
\* The validator normalizes the mac.
PhoneEntry(d) ==
    IF PhoneRequired \subseteq DOMAIN d /\ normalize_mac(d["mac"]).ok
    THEN [ok |-> TRUE,
          value |-> [k \in PhoneRequired \cup (PhoneOptional \cap DOMAIN d) |->
                        IF k = "mac" THEN normalize_mac(d["mac"]).value ELSE d[k]]]
    ELSE [ok |-> FALSE, value |-> EmptyDict]

\* The values of the optional fields that Python takes for false.
Falsy == [pbx_server |-> "", pbx_port |-> 0, transport |-> "", label |-> "",
          codecs |-> <<>>]

\* phone.k or default
Or(phone, k, default) ==
    IF k \in DOMAIN phone /\ phone[k] # Falsy[k] THEN phone[k] ELSE default

\* PhoneEntry.line_label, lines 33-36.
line_label(phone) == Or(phone, "label", phone["display_name"])

\* Inventory.get_effective_settings, lines 81-97.
get_effective_settings(inv, phone) ==
    [pbx_server |-> Or(phone, "pbx_server", inv.global_settings["pbx_server"]),
     pbx_port |-> Or(phone, "pbx_port", inv.global_settings["pbx_port"]),
     transport |-> Or(phone, "transport", inv.global_settings["transport"]),
     ntp_server |-> inv.global_settings["ntp_server"],
     timezone |-> inv.global_settings["timezone"],
     codecs |-> Or(phone, "codecs", inv.global_settings["codecs"]),
     extension |-> phone["extension"],
     display_name |-> phone["display_name"],
     password |-> phone["password"],
     label |-> line_label(phone),
     mac |-> phone["mac"],
     model |-> phone["model"]]

\* Mutant of WithSecret: the secret fills in for a record without password.
WithSecret_fills_in(phone_dict, phone_passwords) ==
    LET ext == Get(phone_dict, "extension", "")
    IN  IF ext \in DOMAIN phone_passwords /\ "password" \notin DOMAIN phone_dict
        THEN Put(phone_dict, "password", phone_passwords[ext])
        ELSE phone_dict

\* load_inventory, lines 122-127: the secrets file overrides the password of
\* the device with that extension.
WithSecret(phone_dict, phone_passwords) ==
    LET ext == Get(phone_dict, "extension", "")
    IN  IF ext \in DOMAIN phone_passwords
        THEN Put(phone_dict, "password", phone_passwords[ext])
        ELSE phone_dict

\* inventory.Inventory.get_phone_by_mac over _mac_index: TRUE when found.
\* A later record with the same mac replaces an earlier one in the index.
get_phone_by_mac(inv, mac) ==
    \E i \in 1..Len(inv.phones) : inv.phones[i]["mac"] = normalize_mac(mac).value

\* inventory.load_inventory: [ok, value]; ok = FALSE is an exception of the
\* YAML parser or of pydantic.
load_inventory(fsys, secrets_configured) ==
    LET phones_r    == IF exists(fsys, PHONES) THEN safe_load(fsys[PHONES])
                       ELSE [ok |-> TRUE, data |-> EmptyDict]
        phonebook_r == IF exists(fsys, PHONEBOOK) THEN safe_load(fsys[PHONEBOOK])
                       ELSE [ok |-> TRUE, data |-> EmptyDict]
        secrets_r   == IF secrets_configured /\ exists(fsys, SECRETS)
                       THEN safe_load(fsys[SECRETS])
                       ELSE [ok |-> TRUE, data |-> EmptyDict]
        phone_passwords == Get(secrets_r.data, "phone_passwords", EmptyDict)
        phone_dicts == Get(phones_r.data, "phones", <<>>)
        entries     == [i \in 1..Len(phone_dicts) |->
                           PhoneEntry(WithSecret(phone_dicts[i], phone_passwords))]
    IN  IF phones_r.ok /\ phonebook_r.ok /\ secrets_r.ok
           /\ \A i \in 1..Len(entries) : entries[i].ok
        THEN [ok |-> TRUE,
              value |-> [global_settings |->
                             ParseGlobalSettings(Get(phones_r.data, "global", EmptyDict)),
                         phones |-> [i \in 1..Len(entries) |-> entries[i].value],
                         phonebook |-> Get(phonebook_r.data, "phonebook", <<>>),
                         phonebook_name |->
                             Get(phonebook_r.data, "phonebook_name", "Directory")]]
        ELSE [ok |-> FALSE, value |-> EmptyDict]

\* ----------------------------------------------------------- BackupManager
BackupNames == [stem : {stem(f) : f \in Targets}, ts : 0..MaxTime]

\* The backups of one file: glob(f"{file_stem}_*{file_suffix}")
BackupsOf(bk, s) == {n \in DOMAIN bk : n.stem = s /\ bk[n].kind # "none"}

\* Mutant of _cleanup_old_backups: sorted oldest first.
_cleanup_old_backups_keeps_oldest(bk, s) ==
    LET found == BackupsOf(bk, s)
    IN  IF Cardinality(found) <= max_backups
        THEN {bk}
        ELSE { [n \in DOMAIN bk |-> IF n \in old THEN NoFile ELSE bk[n]] :
                 old \in { D \in SUBSET found :
                             /\ Cardinality(found \ D) = max_backups
                             /\ \A d \in D, k \in found \ D :
                                    bk[d].mtime >= bk[k].mtime } }

\* BackupManager._cleanup_old_backups: the directories it may leave.  The
\* backups are sorted by modification time, newest first, and all beyond
\* the first max_backups are unlinked; the order of backups of equal
\* modification time is the order of the directory listing, any order.
_cleanup_old_backups(bk, s) ==
    LET found == BackupsOf(bk, s)
    IN  IF Cardinality(found) <= max_backups
        THEN {bk}
        ELSE { [n \in DOMAIN bk |-> IF n \in old THEN NoFile ELSE bk[n]] :
                 old \in { D \in SUBSET found :
                             /\ Cardinality(found \ D) = max_backups
                             /\ \A d \in D, k \in found \ D :
                                    bk[d].mtime <= bk[k].mtime } }

\* BackupManager.create_backup, lines 34-43: the name carries the time to
\* the second; shutil.copy2 copies the content and the modification time,
\* over an earlier backup of the same second.
backup_path(f, t) == [stem |-> stem(f), ts |-> t]

create_backup(bk, fsys, f, t) ==
    _cleanup_old_backups([bk EXCEPT ![backup_path(f, t)] = fsys[f]], stem(f))

\* Mutant of restore_backup: the target is opened for writing and left.
restore_backup_truncates(bk, fsys, name, f) == [fsys EXCEPT ![f] = EmptyFile(0)]

\* BackupManager.restore_backup, line 70: shutil.copy2(backup, target)
restore_backup(bk, fsys, name, f) == [fsys EXCEPT ![f] = bk[name]]

\* ------------------------------------------------------------------ inputs
Procs == {1, 2}

\* Extensions are strings; the request schema accepts any string.
Exts == {"", "200", "201"}
Passwords == {"secret1", "secret2"}

\* A field an update leaves out.
Unset == "<unset>"

AltSettings ==
    [pbx_server |-> "pbx.test.local", pbx_port |-> 5061, transport |-> "TCP",
     ntp_server |-> "ntp.test.local", timezone |-> "UTC", codecs |-> <<"G722">>]

SettingsInputs == {GlobalSettings, AltSettings}

EntryInputs == {[name |-> "Ann", number |-> "100"], [name |-> "Ben", number |-> "555-1234"]}

Indexes == -1..1

\* ----------------------------------------------------------- caller's locals
\* The context of one _atomic_write_yaml call.  old and failed are history:
\* the target as the call found it, and the step that raised.
NoWrite ==
    [file |-> "", data |-> EmptyDict, has_backup |-> FALSE,
     backup |-> backup_path(PHONES, 0), cont |-> "", old |-> NoFile, failed |-> "none"]

\* seconds is history: the seconds in which a caller that calls again and
\* again began its writes.
\* pre is history: the durable and live state when the operation was called;
\* raw, the identifier as the caller spelled it, is kept for a call that is
\* rejected before it writes; new_id is what the create endpoint answers.
Idle ==
    [pc |-> "idle", op |-> "none", result |-> "none", raw |-> <<>>, mac |-> <<>>,
     phone |-> EmptyDict, updates |-> EmptyDict, index |-> 0, entry |-> EmptyDict,
     settings |-> EmptyDict, old_extension |-> "",
     data |-> EmptyDict, w |-> NoWrite, pre |-> EmptyDict, seconds |-> {},
     new_id |-> 0]

Snapshot == [fs |-> fs, backups |-> backups, inventory |-> inventory]

\* The operation ends: it returns (result "ok") or raises.
Finish(l, result) == [l EXCEPT !.pc = "done", !.result = result]

\* YAMLRepository._atomic_write_yaml, lines 393-394: the call begins; cont is
\* where the caller goes on when it returns.
_atomic_write_yaml(l, f, data, cont) ==
    [l EXCEPT !.pc = "backup", !.raw = <<>>,
              !.w = [file |-> f, data |-> data, has_backup |-> FALSE,
                     backup |-> backup_path(f, 0), cont |-> cont,
                     old |-> fs[f], failed |-> "none"]]

\* Mutant of _is_extension_available: with exclude_mac given, every record
\* holding the extension is skipped.
_is_extension_available_skips_all(inv, extension, exclude_mac) ==
    \A i \in 1..Len(inv.phones) :
        inv.phones[i]["extension"] = extension => exclude_mac # <<>>

\* Mutant of _is_extension_available: without exclude_mac, the comparison of
\* the macs is between two None and every record is skipped.
_is_extension_available_none_skips(inv, extension, exclude_mac) ==
    \A i \in 1..Len(inv.phones) :
        inv.phones[i]["extension"] = extension =>
            (exclude_mac = <<>> \/ inv.phones[i]["mac"] = normalize_mac(exclude_mac).value)

\* YAMLRepository._is_extension_available; exclude_mac = <<>> is None.
_is_extension_available(inv, extension, exclude_mac) ==
    \A i \in 1..Len(inv.phones) :
        inv.phones[i]["extension"] = extension =>
            (exclude_mac # <<>> /\ inv.phones[i]["mac"] = normalize_mac(exclude_mac).value)

\* Mutant of FindPhone: the stored mac is compared as it is spelled.
FindPhone_as_spelled(phones_list, normalized_mac) ==
    LET hits == {i \in 1..Len(phones_list) : phones_list[i]["mac"] = normalized_mac}
    IN  IF hits = {} THEN 0 ELSE CHOOSE i \in hits : \A j \in hits : i <= j

\* The index (1-based) of the first record of phones_list with this mac, 0
\* when there is none: the loops of update_phone and delete_phone.
FindPhone(phones_list, normalized_mac) ==
    LET hits == {i \in 1..Len(phones_list) :
                    normalize_mac(phones_list[i]["mac"]).value = normalized_mac}
    IN  IF hits = {} THEN 0 ELSE CHOOSE i \in hits : \A j \in hits : i <= j

\* Python truthiness of a str or None.
Truthy(x) == x # "" /\ x # Unset

\* The secrets file is configured and present: self.secrets_file and
\* self.secrets_file.exists()
SecretsPresent == secrets_file /\ exists(fs, SECRETS)

\* YAMLRepository._update_secret_password, lines 436-438, after the guard.
_update_secret_password(l, extension, password, cont) ==
    LET secrets_data == _load_yaml(fs, SECRETS)
        phone_passwords == Get(secrets_data.data, "phone_passwords", EmptyDict)
    IN  IF ~secrets_data.ok
        THEN Finish(l, "PersistenceError")
        ELSE _atomic_write_yaml(l, SECRETS,
                 Put(secrets_data.data, "phone_passwords",
                     Put(phone_passwords, extension, password)),
                 cont)

\* YAMLRepository._remove_secret_password
_remove_secret_password(l, extension, cont) ==
    LET secrets_data == _load_yaml(fs, SECRETS)
        phone_passwords == Get(secrets_data.data, "phone_passwords", EmptyDict)
    IN  IF ~secrets_file \/ ~exists(fs, SECRETS)
        THEN [l EXCEPT !.pc = cont]
        ELSE IF ~secrets_data.ok
        THEN Finish(l, "PersistenceError")
        ELSE IF extension \in DOMAIN phone_passwords
        THEN _atomic_write_yaml(l, SECRETS,
                 Put(secrets_data.data, "phone_passwords", Del(phone_passwords, extension)),
                 cont)
        ELSE [l EXCEPT !.pc = cont]

Step(p, l) ==
    /\ proc' = [proc EXCEPT ![p] = l]
    /\ UNCHANGED <<secrets_file, callers, now, max_backups, ami>>

Call(p) ==
    /\ p \in callers
    /\ proc[p].pc = "idle"
    /\ nops < MaxOps
    /\ nops' = nops + 1
    /\ UNCHANGED <<fs, backups, inventory, faults>>

\* ------------------------------------------------------- device operations
\* Mutant of AddPhone: the record is put before the others.
AddPhone_prepends(raw, ext, pw) ==
    LET entry == PhoneEntry([mac |-> raw, model |-> "yealink_t23g", extension |-> ext,
                             display_name |-> "Alice", password |-> pw])
        phone == entry.value
        l == [Idle EXCEPT !.op = "add_phone", !.raw = raw, !.phone = phone,
                          !.pre = Snapshot]
        inv == load_inventory(fs, secrets_file)
        phones_data == _load_yaml(fs, PHONES)
        written == Put(phones_data.data, "phones",
                       <<phone>> \o Get(phones_data.data, "phones", <<>>))
    IN  IF ~entry.ok THEN Finish(l, "ValueError")
        ELSE IF ~inv.ok THEN Finish(l, "LoadError")
        ELSE IF get_phone_by_mac(inv.value, phone["mac"])
        THEN Finish(l, "DuplicateMACError")
        ELSE IF ~_is_extension_available(inv.value, phone["extension"], <<>>)
        THEN Finish(l, "DuplicateExtensionError")
        ELSE IF ~phones_data.ok THEN Finish(l, "PersistenceError")
        ELSE _atomic_write_yaml([l EXCEPT !.data = written], PHONES, written,
                                "add_secrets")

\* The caller builds PhoneEntry(mac=raw, ...) (the validator normalizes the
\* mac or raises) and calls YAMLRepository.add_phone; lines 65-103 up to the
\* first write: the caller's locals after them.
AddPhone(raw, ext, pw) ==
    LET entry == PhoneEntry([mac |-> raw, model |-> "yealink_t23g", extension |-> ext,
                             display_name |-> "Alice", password |-> pw])
        phone == entry.value
        l == [Idle EXCEPT !.op = "add_phone", !.raw = raw, !.phone = phone,
                          !.pre = Snapshot]
        inv == load_inventory(fs, secrets_file)
        phones_data == _load_yaml(fs, PHONES)
        phone_dict == phone
        written == Put(phones_data.data, "phones",
                       Append(Get(phones_data.data, "phones", <<>>), phone_dict))
    IN  IF ~entry.ok THEN Finish(l, "ValueError")
        ELSE IF ~inv.ok THEN Finish(l, "LoadError")
        ELSE IF get_phone_by_mac(inv.value, phone["mac"])
        THEN Finish(l, "DuplicateMACError")
        ELSE IF ~_is_extension_available(inv.value, phone["extension"], <<>>)
        THEN Finish(l, "DuplicateExtensionError")
        ELSE IF ~phones_data.ok THEN Finish(l, "PersistenceError")
        ELSE _atomic_write_yaml([l EXCEPT !.data = written], PHONES, written,
                                "add_secrets")

\* Mutant of add_phone: the backup of phones.yml is taken before the checks.
add_phone_backup_first(p) ==
    /\ p \in callers
    /\ proc[p].pc = "idle"
    /\ nops < MaxOps
    /\ nops' = nops + 1
    /\ IF exists(fs, PHONES)
       THEN backups' \in create_backup(backups, fs, PHONES, now)
       ELSE UNCHANGED backups
    /\ UNCHANGED <<fs, inventory, faults>>
    /\ \E raw \in RawMacs, ext \in Exts, pw \in Passwords : Step(p, AddPhone(raw, ext, pw))

add_phone(p) ==
    /\ Call(p)
    /\ \E raw \in RawMacs, ext \in Exts, pw \in Passwords : Step(p, AddPhone(raw, ext, pw))

\* Mutant of add_secrets: the inventory is reloaded as soon as phones.yml is
\* written.
add_secrets_publishes(p) ==
    /\ proc[p].pc = "add_secrets"
    /\ Step(p, IF SecretsPresent
               THEN _update_secret_password(proc[p], proc[p].phone["extension"],
                                            proc[p].phone["password"], "add_strip")
               ELSE [proc[p] EXCEPT !.pc = "reload"])
    /\ inventory' = IF load_inventory(fs, secrets_file).ok
                    THEN load_inventory(fs, secrets_file).value ELSE inventory
    /\ UNCHANGED <<fs, backups, nops, faults>>

\* add_phone, lines 105-107: after phones.yml is written.
add_secrets(p) ==
    /\ proc[p].pc = "add_secrets"
    /\ Step(p, IF SecretsPresent
               THEN _update_secret_password(proc[p], proc[p].phone["extension"],
                                            proc[p].phone["password"], "add_strip")
               ELSE [proc[p] EXCEPT !.pc = "reload"])
    /\ UNCHANGED <<fs, backups, inventory, nops, faults>>

\* Mutant of add_strip: phones.yml is written again with the password kept.
add_strip_keeps_password(p) ==
    /\ proc[p].pc = "add_strip"
    /\ Step(p, _atomic_write_yaml(proc[p], PHONES, proc[p].data, "reload"))
    /\ UNCHANGED <<fs, backups, inventory, nops, faults>>

\* add_phone, lines 108-110: phone_dict, the last of the list, loses its
\* password and phones.yml is written again.
add_strip(p) ==
    /\ proc[p].pc = "add_strip"
    /\ LET phones_list == proc[p].data["phones"]
           n == Len(phones_list)
           stripped == Put(proc[p].data, "phones",
                           [phones_list EXCEPT ![n] = Del(phones_list[n], "password")])
       IN  Step(p, _atomic_write_yaml([proc[p] EXCEPT !.data = stripped], PHONES, stripped,
                                      "reload"))
    /\ UNCHANGED <<fs, backups, inventory, nops, faults>>

\* Mutant of ApplyUpdates: the extension is not assigned.
ApplyUpdates_keeps_extension(current_phone, updates, secrets_present) ==
    [k \in (DOMAIN current_phone)
             \cup (IF secrets_present THEN (DOMAIN updates) \ {"password"} ELSE DOMAIN updates)
       |-> IF k \in DOMAIN updates /\ (k # "password" \/ ~secrets_present)
              /\ (k # "extension" \/ k \notin DOMAIN current_phone)
           THEN updates[k] ELSE current_phone[k]]

\* Mutant of ApplyUpdates: the password is assigned like any other field.
ApplyUpdates_password_too(current_phone, updates, secrets_present) ==
    [k \in (DOMAIN current_phone) \cup (DOMAIN updates)
       |-> IF k \in DOMAIN updates THEN updates[k] ELSE current_phone[k]]

\* The assignments of update_phone's loop, lines 157-170, to current_phone;
\* the password goes to phones.yml only when no secrets file is present.
ApplyUpdates(current_phone, updates, secrets_present) ==
    [k \in (DOMAIN current_phone)
             \cup (IF secrets_present THEN (DOMAIN updates) \ {"password"} ELSE DOMAIN updates)
       |-> IF k \in DOMAIN updates /\ (k # "password" \/ ~secrets_present)
           THEN updates[k] ELSE current_phone[k]]

\* The updates dict the caller builds: only the fields that are set.
Updates(ext, pw) ==
    [k \in {x \in {"extension", "password"} :
              (x = "extension" /\ ext # Unset) \/ (x = "password" /\ pw # Unset)}
       |-> IF k = "extension" THEN ext ELSE pw]

\* YAMLRepository.update_phone, lines 129-173.
update_phone(p) ==
    /\ Call(p)
    /\ \E raw \in MacArgs, ext \in Exts \cup {Unset}, pw \in Passwords \cup {Unset} :
         LET normalized_mac == normalize_mac(raw)
             updates == Updates(ext, pw)
             phones_data == _load_yaml(fs, PHONES)
             phones_list == Get(phones_data.data, "phones", <<>>)
             phone_index == FindPhone(phones_list, normalized_mac.value)
             current_phone == phones_list[phone_index]
             old_extension == current_phone["extension"]
             l == [Idle EXCEPT !.op = "update_phone", !.raw = raw,
                               !.mac = normalized_mac.value, !.updates = updates,
                               !.pre = Snapshot]
             changing == "extension" \in DOMAIN updates
                         /\ updates["extension"] # current_phone["extension"]
             inv == load_inventory(fs, secrets_file)
             written == Put(phones_data.data, "phones",
                            [phones_list EXCEPT ![phone_index] =
                                ApplyUpdates(current_phone, updates, SecretsPresent)])
             l2 == [l EXCEPT !.old_extension = old_extension, !.data = written]
         IN  Step(p,
               IF ~normalized_mac.ok THEN Finish(l, "ValueError")
               ELSE IF ~phones_data.ok THEN Finish(l, "PersistenceError")
               ELSE IF phone_index = 0 THEN Finish(l, "PhoneNotFoundError")
               ELSE IF changing /\ ~inv.ok THEN Finish(l, "LoadError")
               ELSE IF changing
                       /\ ~_is_extension_available(inv.value, updates["extension"],
                                                   normalized_mac.value)
               THEN Finish(l, "DuplicateExtensionError")
               ELSE IF "password" \in DOMAIN updates /\ SecretsPresent
               THEN _update_secret_password(l2, Get(updates, "extension", old_extension),
                                            updates["password"], "update_write")
               ELSE _atomic_write_yaml(l2, PHONES, written, "update_migrate"))

\* update_phone, line 173, when the loop has written the secrets file first.
update_write(p) ==
    /\ proc[p].pc = "update_write"
    /\ Step(p, _atomic_write_yaml(proc[p], PHONES, proc[p].data, "update_migrate"))
    /\ UNCHANGED <<fs, backups, inventory, nops, faults>>

\* Mutant of MoveSecret: the old key is not deleted.
MoveSecret_keeps_old(phone_passwords, old_extension, extension) ==
    Put(phone_passwords, extension, phone_passwords[old_extension])

\* update_phone, lines 181-182: the password moves to the new key.
MoveSecret(phone_passwords, old_extension, extension) ==
    Del(Put(phone_passwords, extension, phone_passwords[old_extension]), old_extension)

\* update_phone, lines 175-183: the secret moves to the new extension.
update_migrate(p) ==
    /\ proc[p].pc = "update_migrate"
    /\ LET l == proc[p]
           updates == l.updates
           secrets_data == _load_yaml(fs, SECRETS)
           phone_passwords == Get(secrets_data.data, "phone_passwords", EmptyDict)
           old_extension == l.old_extension
           moved == MoveSecret(phone_passwords, old_extension, updates["extension"])
       IN  Step(p,
             IF "extension" \in DOMAIN updates /\ old_extension # updates["extension"]
                /\ secrets_file
             THEN IF ~secrets_data.ok THEN Finish(l, "PersistenceError")
                  ELSE IF old_extension \in DOMAIN phone_passwords
                          /\ "password" \notin DOMAIN updates
                  THEN _atomic_write_yaml(l, SECRETS,
                           Put(secrets_data.data, "phone_passwords", moved), "reload")
                  ELSE [l EXCEPT !.pc = "reload"]
             ELSE [l EXCEPT !.pc = "reload"])
    /\ UNCHANGED <<fs, backups, inventory, nops, faults>>

\* YAMLRepository.delete_phone, lines 200-222.
delete_phone(p) ==
    /\ Call(p)
    /\ \E raw \in MacArgs :
         LET normalized_mac == normalize_mac(raw)
             phones_data == _load_yaml(fs, PHONES)
             phones_list == Get(phones_data.data, "phones", <<>>)
             phone_index == FindPhone(phones_list, normalized_mac.value)
             phone_extension == phones_list[phone_index]["extension"]
             l == [Idle EXCEPT !.op = "delete_phone", !.raw = raw,
                               !.mac = normalized_mac.value, !.pre = Snapshot]
             written == Put(phones_data.data, "phones", Pop(phones_list, phone_index))
         IN  Step(p,
               IF ~normalized_mac.ok THEN Finish(l, "ValueError")
               ELSE IF ~phones_data.ok THEN Finish(l, "PersistenceError")
               ELSE IF phone_index = 0 THEN Finish(l, "PhoneNotFoundError")
               ELSE _atomic_write_yaml(
                        [l EXCEPT !.old_extension = phone_extension, !.data = written],
                        PHONES, written, "delete_secret"))

\* Mutant of delete_secret: the inventory is reloaded before the secret is
\* removed.
delete_secret_publishes(p) ==
    /\ proc[p].pc = "delete_secret"
    /\ Step(p, IF Truthy(proc[p].old_extension) /\ secrets_file
               THEN _remove_secret_password(proc[p], proc[p].old_extension, "reload")
               ELSE [proc[p] EXCEPT !.pc = "reload"])
    /\ inventory' = IF load_inventory(fs, secrets_file).ok
                    THEN load_inventory(fs, secrets_file).value ELSE inventory
    /\ UNCHANGED <<fs, backups, nops, faults>>

\* delete_phone, lines 224-226.
delete_secret(p) ==
    /\ proc[p].pc = "delete_secret"
    /\ Step(p, IF Truthy(proc[p].old_extension) /\ secrets_file
               THEN _remove_secret_password(proc[p], proc[p].old_extension, "reload")
               ELSE [proc[p] EXCEPT !.pc = "reload"])
    /\ UNCHANGED <<fs, backups, inventory, nops, faults>>

\* Mutant of update_global_settings: the document is begun anew.
update_global_settings_alone(p) ==
    /\ Call(p)
    /\ \E settings \in SettingsInputs :
         LET phones_data == _load_yaml(fs, PHONES)
             l == [Idle EXCEPT !.op = "update_global_settings", !.settings = settings,
                               !.pre = Snapshot]
             written == Put(EmptyDict, "global", settings)
         IN  Step(p,
               IF ~phones_data.ok THEN Finish(l, "PersistenceError")
               ELSE _atomic_write_yaml([l EXCEPT !.data = written], PHONES, written,
                                       "reload"))

\* YAMLRepository.update_global_settings, lines 244-257.
update_global_settings(p) ==
    /\ Call(p)
    /\ \E settings \in SettingsInputs :
         LET phones_data == _load_yaml(fs, PHONES)
             l == [Idle EXCEPT !.op = "update_global_settings", !.settings = settings,
                               !.pre = Snapshot]
             written == Put(phones_data.data, "global", settings)
         IN  Step(p,
               IF ~phones_data.ok THEN Finish(l, "PersistenceError")
               ELSE _atomic_write_yaml([l EXCEPT !.data = written], PHONES, written,
                                       "reload"))

\* ---------------------------------------------------- directory operations
\* YAMLRepository.add_phonebook_entry, lines 275-284.
AddPhonebookEntry(entry) ==
    LET phonebook_data == _load_yaml(fs, PHONEBOOK)
        l == [Idle EXCEPT !.op = "add_phonebook_entry", !.entry = entry,
                          !.pre = Snapshot]
        written == Put(phonebook_data.data, "phonebook",
                       Append(Get(phonebook_data.data, "phonebook", <<>>), entry))
    IN  IF ~phonebook_data.ok THEN Finish(l, "PersistenceError")
        ELSE _atomic_write_yaml([l EXCEPT !.data = written], PHONEBOOK, written,
                                "reload")

add_phonebook_entry(p) ==
    /\ Call(p)
    /\ \E entry \in EntryInputs : Step(p, AddPhonebookEntry(entry))

\* Mutant of update_phonebook_entry: an index equal to the length passes.
update_phonebook_entry_off_by_one(p) ==
    /\ Call(p)
    /\ \E index \in Indexes, entry \in EntryInputs :
         LET phonebook_data == _load_yaml(fs, PHONEBOOK)
             phonebook_list == Get(phonebook_data.data, "phonebook", <<>>)
             l == [Idle EXCEPT !.op = "update_phonebook_entry", !.index = index,
                               !.entry = entry, !.pre = Snapshot]
             written == Put(phonebook_data.data, "phonebook",
                            IF index < Len(phonebook_list)
                            THEN [phonebook_list EXCEPT ![index + 1] = entry]
                            ELSE phonebook_list)
         IN  Step(p,
               IF ~phonebook_data.ok THEN Finish(l, "PersistenceError")
               ELSE IF index < 0 \/ index > Len(phonebook_list)
               THEN Finish(l, "PhonebookEntryNotFoundError")
               ELSE _atomic_write_yaml([l EXCEPT !.data = written], PHONEBOOK, written,
                                       "reload"))

\* YAMLRepository.update_phonebook_entry, lines 300-311; index is 0-based.
update_phonebook_entry(p) ==
    /\ Call(p)
    /\ \E index \in Indexes, entry \in EntryInputs :
         LET phonebook_data == _load_yaml(fs, PHONEBOOK)
             phonebook_list == Get(phonebook_data.data, "phonebook", <<>>)
             l == [Idle EXCEPT !.op = "update_phonebook_entry", !.index = index,
                               !.entry = entry, !.pre = Snapshot]
             written == Put(phonebook_data.data, "phonebook",
                            [phonebook_list EXCEPT ![index + 1] = entry])
         IN  Step(p,
               IF ~phonebook_data.ok THEN Finish(l, "PersistenceError")
               ELSE IF index < 0 \/ index >= Len(phonebook_list)
               THEN Finish(l, "PhonebookEntryNotFoundError")
               ELSE _atomic_write_yaml([l EXCEPT !.data = written], PHONEBOOK, written,
                                       "reload"))

\* YAMLRepository.delete_phonebook_entry, lines 326-334.
delete_phonebook_entry(p) ==
    /\ Call(p)
    /\ \E index \in Indexes :
         LET phonebook_data == _load_yaml(fs, PHONEBOOK)
             phonebook_list == Get(phonebook_data.data, "phonebook", <<>>)
             l == [Idle EXCEPT !.op = "delete_phonebook_entry", !.index = index,
                               !.pre = Snapshot]
             written == Put(phonebook_data.data, "phonebook",
                            Pop(phonebook_list, index + 1))
         IN  Step(p,
               IF ~phonebook_data.ok THEN Finish(l, "PersistenceError")
               ELSE IF index < 0 \/ index >= Len(phonebook_list)
               THEN Finish(l, "PhonebookEntryNotFoundError")
               ELSE _atomic_write_yaml([l EXCEPT !.data = written], PHONEBOOK, written,
                                       "reload"))

\* Mutant of _reload_inventory: the inventory is loaded and not published.
_reload_inventory_not_published(p) ==
    /\ proc[p].pc = "reload"
    /\ Step(p, Finish(proc[p], IF load_inventory(fs, secrets_file).ok
                               THEN "ok" ELSE "LoadError"))
    /\ UNCHANGED <<fs, backups, inventory, nops, faults>>

\* YAMLRepository._reload_inventory: load_inventory, then set_inventory.
_reload_inventory(p) ==
    /\ proc[p].pc = "reload"
    /\ LET inv == load_inventory(fs, secrets_file)
       IN  IF inv.ok
           THEN /\ inventory' = inv.value
                /\ Step(p, Finish(proc[p], "ok"))
           ELSE /\ UNCHANGED inventory
                /\ Step(p, Finish(proc[p], "LoadError"))
    /\ UNCHANGED <<fs, backups, nops, faults>>

\* The caller has its result (or exception) and may call again.
Return(p) ==
    /\ proc[p].pc = "done"
    /\ Step(p, Idle)
    /\ UNCHANGED <<fs, backups, inventory, nops, faults>>

\* --------------------------------------------- _atomic_write_yaml, by step
Fault == faults < MaxFaults /\ faults' = faults + 1

Raised(l, step) == [l EXCEPT !.pc = "rollback", !.w.failed = step]

\* Lines 398-399: no backup of a file that does not exist.
SkipBackup(p) ==
    /\ proc[p].pc = "backup"
    /\ ~exists(fs, proc[p].w.file)
    /\ Step(p, [proc[p] EXCEPT !.pc = "stage"])
    /\ UNCHANGED <<fs, backups, inventory, nops, faults>>

\* Lines 398-399: backup_path = create_backup(file_path)
Backup(p) ==
    /\ proc[p].pc = "backup"
    /\ exists(fs, proc[p].w.file)
    /\ backups' \in create_backup(backups, fs, proc[p].w.file, now)
    /\ Step(p, [proc[p] EXCEPT !.pc = "stage", !.w.has_backup = TRUE,
                               !.w.backup = backup_path(proc[p].w.file, now)])
    /\ UNCHANGED <<fs, inventory, nops, faults>>

\* create_backup raises before it has copied anything; backup_path stays
\* None.
BackupFails(p) ==
    /\ proc[p].pc = "backup"
    /\ exists(fs, proc[p].w.file)
    /\ Fault
    /\ Step(p, Raised(proc[p], "backup"))
    /\ UNCHANGED <<fs, backups, inventory, nops>>

\* Mutant of Stage: the document is serialized over the target itself.
Stage_in_place(p) ==
    /\ proc[p].pc = "stage"
    /\ fs' = [fs EXCEPT ![proc[p].w.file] = DocFile(proc[p].w.data, now),
                        ![with_suffix(proc[p].w.file)] = DocFile(proc[p].w.data, now)]
    /\ Step(p, [proc[p] EXCEPT !.pc = "validate"])
    /\ UNCHANGED <<backups, inventory, nops, faults>>

\* Lines 402-403: the document is serialized to the temporary file.
Stage(p) ==
    /\ proc[p].pc = "stage"
    /\ fs' = [fs EXCEPT ![with_suffix(proc[p].w.file)] = DocFile(proc[p].w.data, now)]
    /\ Step(p, [proc[p] EXCEPT !.pc = "validate"])
    /\ UNCHANGED <<backups, inventory, nops, faults>>

\* open() or yaml.dump raises: no temporary file was opened, or an
\* incomplete one is left.
StageFails(p) ==
    /\ proc[p].pc = "stage"
    /\ Fault
    /\ \/ UNCHANGED fs
       \/ fs' = [fs EXCEPT ![with_suffix(proc[p].w.file)] = PartialFile(now)]
    /\ Step(p, Raised(proc[p], "stage"))
    /\ UNCHANGED <<backups, inventory, nops>>

\* Lines 406-407: the temporary file is parsed again.
Validate(p) ==
    /\ proc[p].pc = "validate"
    /\ safe_load(fs[with_suffix(proc[p].w.file)]).ok
    /\ Step(p, [proc[p] EXCEPT !.pc = "rename"])
    /\ UNCHANGED <<fs, backups, inventory, nops, faults>>

ValidateFails(p) ==
    /\ proc[p].pc = "validate"
    /\ Fault
    /\ Step(p, Raised(proc[p], "validate"))
    /\ UNCHANGED <<fs, backups, inventory, nops>>

\* Line 410: temp_path.replace(file_path); the call returns.
Replace(p) ==
    /\ proc[p].pc = "rename"
    /\ exists(fs, with_suffix(proc[p].w.file))
    /\ fs' = [fs EXCEPT ![proc[p].w.file] = fs[with_suffix(proc[p].w.file)],
                        ![with_suffix(proc[p].w.file)] = NoFile]
    /\ Step(p, [proc[p] EXCEPT !.pc = proc[p].w.cont])
    /\ UNCHANGED <<backups, inventory, nops, faults>>

ReplaceFails(p) ==
    /\ proc[p].pc = "rename"
    /\ Fault
    /\ Step(p, Raised(proc[p], "rename"))
    /\ UNCHANGED <<fs, backups, inventory, nops>>

\* Line 416: the guard of the rollback.
CanRestore(l) ==
    l.w.has_backup /\ backups[l.w.backup].kind # "none" /\ exists(fs, l.w.file)

\* Lines 416-417 with backup.py line 70: shutil.copy2 opens the target for
\* writing, which truncates it.
RestoreOpen(p) ==
    /\ proc[p].pc = "rollback"
    /\ CanRestore(proc[p])
    /\ fs' = [fs EXCEPT ![proc[p].w.file] = EmptyFile(now)]
    /\ Step(p, [proc[p] EXCEPT !.pc = "restore"])
    /\ UNCHANGED <<backups, inventory, nops, faults>>

\* shutil.copy2 copies the backup's bytes and modification time.
RestoreCopy(p) ==
    /\ proc[p].pc = "restore"
    /\ fs' = restore_backup(backups, fs, proc[p].w.backup, proc[p].w.file)
    /\ Step(p, [proc[p] EXCEPT !.pc = "cleanup"])
    /\ UNCHANGED <<backups, inventory, nops, faults>>

\* The copy raises inside the except block: the exception of the copy
\* leaves _atomic_write_yaml, and lines 420-424 do not run.
RestoreFails(p) ==
    /\ proc[p].pc = "restore"
    /\ Fault
    /\ Step(p, Finish(proc[p], "OSError"))
    /\ UNCHANGED <<fs, backups, inventory, nops>>

\* Line 416, the guard is false: nothing to restore.
SkipRestore(p) ==
    /\ proc[p].pc = "rollback"
    /\ ~CanRestore(proc[p])
    /\ Step(p, [proc[p] EXCEPT !.pc = "cleanup"])
    /\ UNCHANGED <<fs, backups, inventory, nops, faults>>

\* Lines 420-424: the temporary file is removed and PersistenceError raised.
Cleanup(p) ==
    /\ proc[p].pc = "cleanup"
    /\ fs' = [fs EXCEPT ![with_suffix(proc[p].w.file)] = NoFile]
    /\ Step(p, Finish(proc[p], "PersistenceError"))
    /\ UNCHANGED <<backups, inventory, nops, faults>>

\* ------------------------------------------------------------- environment
\* A second passes.  The clock is read when a backup is named and when a
\* file is written; an operation is taken to run within one second.
Tick ==
    /\ \A p \in Procs : proc[p].pc = "idle"
    /\ now < MaxTime
    /\ now' = now + 1
    /\ UNCHANGED <<fs, backups, inventory, secrets_file, proc, callers, nops, faults,
                   max_backups, ami>>

\* No AMI client has been constructed.
NoClient == [pc |-> "none"]

\* ----------------------------------------------------------- specification
\* A device file an operator wrote: one device, its mac spelled
\* "00:15:65:AA:BB:CC"; the password is in the record, or in the secrets file.
Device1 ==
    [mac |-> <<"0","0",":","1","5",":","6","5",":","A","A",":","B","B",":","C","C">>,
     model |-> "yealink_t23g", extension |-> "200", display_name |-> "Alice"]

\* The server has started (server.py line 87).  The secrets file is not
\* configured, configured and missing, or present; the device file is
\* missing or holds one device.
Init ==
    /\ secrets_file \in BOOLEAN
    /\ \E present \in BOOLEAN, populated \in BOOLEAN :
         /\ secrets_file \/ ~present
         /\ fs = [f \in Paths |->
                 CASE f = SECRETS /\ present ->
                        DocFile([phone_passwords |->
                                    IF populated THEN [e \in {"200"} |-> "secret1"]
                                    ELSE EmptyDict], 0)
                   [] f = PHONES /\ populated ->
                        DocFile([phones |->
                                    <<IF present THEN Device1
                                      ELSE Put(Device1, "password", "secret1")>>], 0)
                   [] OTHER -> NoFile]
    /\ backups = [n \in BackupNames |-> NoFile]
    /\ inventory = load_inventory(fs, secrets_file).value
    /\ proc = [p \in Procs |-> Idle]
    /\ callers = {1}
    /\ now = 0
    /\ nops = 0
    /\ faults = 0
    /\ max_backups = 10
    /\ ami = NoClient

Do(p) ==
    \/ add_phone(p) \/ add_secrets(p) \/ add_strip(p)
    \/ update_phone(p) \/ update_write(p) \/ update_migrate(p)
    \/ delete_phone(p) \/ delete_secret(p)
    \/ update_global_settings(p)
    \/ add_phonebook_entry(p) \/ update_phonebook_entry(p) \/ delete_phonebook_entry(p)
    \/ _reload_inventory(p) \/ Return(p)
    \/ SkipBackup(p) \/ Backup(p) \/ BackupFails(p)
    \/ Stage(p) \/ StageFails(p)
    \/ Validate(p) \/ ValidateFails(p)
    \/ Replace(p) \/ ReplaceFails(p)
    \/ RestoreOpen(p) \/ RestoreCopy(p) \/ RestoreFails(p) \/ SkipRestore(p)
    \/ Cleanup(p)

Next == Tick \/ \E p \in Procs : Do(p)

Spec == Init /\ [][Next]_vars

\* ------------------------------------------------ two interleaved callers
\* add_phone, lines 65-74, as a step of its own: the inventory is loaded and
\* the two uniqueness checks run; no lock is taken.
AddPhoneCheck(raw, ext, pw) ==
    LET entry == PhoneEntry([mac |-> raw, model |-> "yealink_t23g", extension |-> ext,
                             display_name |-> "Alice", password |-> pw])
        phone == entry.value
        l == [Idle EXCEPT !.op = "add_phone", !.raw = raw, !.phone = phone,
                          !.pre = Snapshot]
        inv == load_inventory(fs, secrets_file)
    IN  IF ~entry.ok THEN Finish(l, "ValueError")
        ELSE IF ~inv.ok THEN Finish(l, "LoadError")
        ELSE IF get_phone_by_mac(inv.value, phone["mac"])
        THEN Finish(l, "DuplicateMACError")
        ELSE IF ~_is_extension_available(inv.value, phone["extension"], <<>>)
        THEN Finish(l, "DuplicateExtensionError")
        ELSE [l EXCEPT !.pc = "add_load"]

add_phone_check(p) ==
    /\ Call(p)
    /\ \E raw \in MacArgs, ext \in Exts, pw \in Passwords :
         Step(p, AddPhoneCheck(raw, ext, pw))

\* Mutant of add_phone_load: the document is written back as it was loaded,
\* without the new record.
add_phone_load_unappended(p) ==
    /\ proc[p].pc = "add_load"
    /\ LET l == proc[p]
           phones_data == _load_yaml(fs, PHONES)
           written == Put(phones_data.data, "phones",
                          Get(phones_data.data, "phones", <<>>))
       IN  Step(p, IF ~phones_data.ok THEN Finish(l, "PersistenceError")
                   ELSE _atomic_write_yaml([l EXCEPT !.data = written], PHONES, written,
                                           "add_secrets"))
    /\ UNCHANGED <<fs, backups, inventory, nops, faults>>

\* Mutant of add_phone_load: the record is compared with the document just
\* loaded before it is appended.
add_phone_load_rechecks(p) ==
    /\ proc[p].pc = "add_load"
    /\ LET l == proc[p]
           phones_data == _load_yaml(fs, PHONES)
           phones_list == Get(phones_data.data, "phones", <<>>)
           written == Put(phones_data.data, "phones", Append(phones_list, l.phone))
       IN  Step(p, IF ~phones_data.ok THEN Finish(l, "PersistenceError")
                   ELSE IF \E i \in 1..Len(phones_list) :
                              normalize_mac(phones_list[i]["mac"]).value = l.phone["mac"]
                   THEN Finish(l, "DuplicateMACError")
                   ELSE IF \E i \in 1..Len(phones_list) :
                              phones_list[i]["extension"] = l.phone["extension"]
                   THEN Finish(l, "DuplicateExtensionError")
                   ELSE _atomic_write_yaml([l EXCEPT !.data = written], PHONES, written,
                                           "add_secrets"))
    /\ UNCHANGED <<fs, backups, inventory, nops, faults>>

\* add_phone, lines 76-103: phones.yml is loaded, the record appended and
\* the write begins.
add_phone_load(p) ==
    /\ proc[p].pc = "add_load"
    /\ LET l == proc[p]
           phones_data == _load_yaml(fs, PHONES)
           written == Put(phones_data.data, "phones",
                          Append(Get(phones_data.data, "phones", <<>>), l.phone))
       IN  Step(p, IF ~phones_data.ok THEN Finish(l, "PersistenceError")
                   ELSE _atomic_write_yaml([l EXCEPT !.data = written], PHONES, written,
                                           "add_secrets"))
    /\ UNCHANGED <<fs, backups, inventory, nops, faults>>

\* Line 406: open(temp_path) raises FileNotFoundError when the other
\* caller, who stages to the same temporary file, has renamed it away.
ValidateMissing(p) ==
    /\ proc[p].pc = "validate"
    /\ ~exists(fs, with_suffix(proc[p].w.file))
    /\ Step(p, Raised(proc[p], "validate"))
    /\ UNCHANGED <<fs, backups, inventory, nops, faults>>

\* Line 410: temp_path.replace raises FileNotFoundError likewise.
ReplaceMissing(p) ==
    /\ proc[p].pc = "rename"
    /\ ~exists(fs, with_suffix(proc[p].w.file))
    /\ Step(p, Raised(proc[p], "rename"))
    /\ UNCHANGED <<fs, backups, inventory, nops, faults>>

\* Two callers of one repository that has no secrets file; one device is
\* stored, its password in the record.
InitConcurrent ==
    /\ secrets_file = FALSE
    /\ fs = [f \in Paths |->
               CASE f = SECRETS /\ secrets_file ->
                      DocFile([phone_passwords |-> [e \in {"200"} |-> "secret1"]], 0)
                 [] f = PHONES ->
                      DocFile([phones |-> <<IF secrets_file THEN Device1
                                            ELSE Put(Device1, "password", "secret1")>>], 0)
                 [] OTHER -> NoFile]
    /\ backups = [n \in BackupNames |-> NoFile]
    /\ inventory = load_inventory(fs, secrets_file).value
    /\ proc = [p \in Procs |-> Idle]
    /\ callers = Procs
    /\ now = 0
    /\ nops = 0
    /\ faults = 0
    /\ max_backups = 10
    /\ ami = NoClient

\* The steps of add_phone and update_phone, of either caller, in any order;
\* an I/O call fails only for what the other caller did.
DoConcurrent(p) ==
    \/ add_phone_check(p) \/ add_phone_load(p) \/ add_secrets(p)
    \/ update_phone(p) \/ update_migrate(p)
    \/ Backup(p) \/ Stage(p) \/ Validate(p) \/ Replace(p)
    \/ ValidateMissing(p) \/ ReplaceMissing(p)
    \/ RestoreOpen(p) \/ RestoreCopy(p) \/ Cleanup(p)
    \/ _reload_inventory(p)

NextConcurrent == \E p \in Procs : DoConcurrent(p)

SpecConcurrent == InitConcurrent /\ [][NextConcurrent]_vars

\* ------------------------------------------------------- the directory alone
\* A directory file an operator wrote: up to three entries, all different.
DirectoryEntries ==
    <<[name |-> "Ann", number |-> "100"], [name |-> "Ben", number |-> "555-1234"],
      [name |-> "Cy", number |-> "300"]>>

\* The server has started with no device file and no secrets file; the
\* directory file is missing or holds the first n entries.
InitDirectory ==
    /\ secrets_file = FALSE
    /\ \E present \in BOOLEAN, n \in 0..Len(DirectoryEntries) :
         /\ present \/ n = 0
         /\ fs = [f \in Paths |->
                 IF f = PHONEBOOK /\ present
                 THEN DocFile([phonebook |-> SubSeq(DirectoryEntries, 1, n)], 0)
                 ELSE NoFile]
    /\ backups = [n \in BackupNames |-> NoFile]
    /\ inventory = load_inventory(fs, secrets_file).value
    /\ proc = [p \in Procs |-> Idle]
    /\ callers = {1}
    /\ now = 0
    /\ nops = 0
    /\ faults = 0
    /\ max_backups = 10
    /\ ami = NoClient

\* The directory operations and the steps of their writes.
DoDirectory(p) ==
    \/ add_phonebook_entry(p) \/ update_phonebook_entry(p) \/ delete_phonebook_entry(p)
    \/ _reload_inventory(p) \/ Return(p)
    \/ SkipBackup(p) \/ Backup(p) \/ BackupFails(p)
    \/ Stage(p) \/ StageFails(p)
    \/ Validate(p) \/ ValidateFails(p)
    \/ Replace(p) \/ ReplaceFails(p)
    \/ RestoreOpen(p) \/ RestoreCopy(p) \/ RestoreFails(p) \/ SkipRestore(p)
    \/ Cleanup(p)

NextDirectory == Tick \/ \E p \in Procs : DoDirectory(p)

SpecDirectory == InitDirectory /\ [][NextDirectory]_vars

\* ------------------------------------------------- the directory endpoints
\* routes/phonebook.create_phonebook_entry, lines 63-74: new_id is the length
\* of the live directory, read before the repository adds the entry; the
\* response carries it when add_phonebook_entry returns.
create_phonebook_entry(p) ==
    /\ Call(p)
    /\ \E entry \in EntryInputs :
         Step(p, [AddPhonebookEntry(entry) EXCEPT
                     !.op = "create_phonebook_entry",
                     !.new_id = Len(inventory.phonebook)])

\* The create endpoint, the delete endpoint (lines 181-182: it calls
\* repository.delete_phonebook_entry(entry_id)) and the steps of their
\* writes.
DoEndpoints(p) ==
    \/ create_phonebook_entry(p) \/ delete_phonebook_entry(p)
    \/ _reload_inventory(p) \/ Return(p)
    \/ SkipBackup(p) \/ Backup(p) \/ BackupFails(p)
    \/ Stage(p) \/ StageFails(p)
    \/ Validate(p) \/ ValidateFails(p)
    \/ Replace(p) \/ ReplaceFails(p)
    \/ RestoreOpen(p) \/ RestoreCopy(p) \/ RestoreFails(p) \/ SkipRestore(p)
    \/ Cleanup(p)

NextEndpoints == Tick \/ \E p \in Procs : DoEndpoints(p)

SpecEndpoints == InitDirectory /\ [][NextEndpoints]_vars

\* ------------------------------------------------------ backup rotation
\* The caller adds directory entries one after the other, Retention + 5 in
\* all, over the seconds 0..Retention + 5.
Writes == Retention + 5

RotationNames == [stem : {stem(PHONEBOOK)}, ts : 0..Writes]

\* add_phonebook_entry, called as soon as the last call has returned, each
\* time with the same entry.
add_phonebook_entry_again(p) ==
    /\ p \in callers
    /\ proc[p].pc \in {"idle", "done"}
    /\ nops < Writes
    /\ nops' = nops + 1
    /\ Step(p, [AddPhonebookEntry([name |-> "Ann", number |-> "100"]) EXCEPT
                    !.seconds = proc[p].seconds \cup {now}])
    /\ UNCHANGED <<fs, backups, inventory, faults>>

\* A second passes between two calls.
TickRotation ==
    /\ \A p \in Procs : proc[p].pc \in {"idle", "done"}
    /\ now < Writes
    /\ now' = now + 1
    /\ UNCHANGED <<fs, backups, inventory, secrets_file, proc, callers, nops, faults,
                   max_backups, ami>>

\* A repository whose backup manager keeps Retention backups; the directory
\* file was written, empty, before the server started.
InitRotation ==
    /\ secrets_file = FALSE
    /\ fs = [f \in Paths |->
               IF f = PHONEBOOK THEN DocFile([phonebook |-> <<>>], -1) ELSE NoFile]
    /\ backups = [n \in RotationNames |-> NoFile]
    /\ inventory = load_inventory(fs, secrets_file).value
    /\ proc = [p \in Procs |-> Idle]
    /\ callers = {1}
    /\ now = 0
    /\ nops = 0
    /\ faults = 0
    /\ max_backups = Retention
    /\ ami = NoClient

DoRotation(p) ==
    \/ add_phonebook_entry_again(p)
    \/ Backup(p) \/ Stage(p) \/ Validate(p) \/ Replace(p)
    \/ _reload_inventory(p)

NextRotation == TickRotation \/ \E p \in Procs : DoRotation(p)

SpecRotation == InitRotation /\ [][NextRotation]_vars

\* ------------------------------------------- the backup manager, directly
\* A caller begins one of the MaxOps calls.
Begin(p) ==
    /\ p \in callers
    /\ proc[p].pc = "idle"
    /\ nops < MaxOps
    /\ nops' = nops + 1

\* BackupManager.create_backup(file_path), lines 31-43, called by itself.
create_backup_called(p) ==
    /\ Begin(p)
    /\ \E f \in Targets :
         LET l == [Idle EXCEPT !.op = "create_backup", !.w.file = f,
                               !.w.backup = backup_path(f, now), !.pre = Snapshot]
         IN  IF ~exists(fs, f)
             THEN /\ Step(p, Finish(l, "FileNotFoundError"))
                  /\ UNCHANGED backups
             ELSE /\ Step(p, Finish(l, "ok"))
                  /\ backups' \in create_backup(backups, fs, f, now)
    /\ UNCHANGED <<fs, inventory, faults>>

\* BackupManager.restore_backup(backup_path, target_path), lines 67-70,
\* called by itself.
restore_backup_called(p) ==
    /\ Begin(p)
    /\ \E name \in DOMAIN backups, f \in Targets :
         LET l == [Idle EXCEPT !.op = "restore_backup", !.w.file = f,
                               !.w.backup = name, !.pre = Snapshot]
         IN  IF backups[name].kind = "none"
             THEN /\ Step(p, Finish(l, "FileNotFoundError"))
                  /\ UNCHANGED fs
             ELSE /\ Step(p, Finish(l, "ok"))
                  /\ fs' = restore_backup(backups, fs, name, f)
    /\ UNCHANGED <<backups, inventory, faults>>

\* A backup manager over a directory in which any of the three files may
\* exist, each with a content of its own; one backup may have been taken.
InitBackups ==
    /\ secrets_file = FALSE
    /\ \E present \in SUBSET Targets :
         fs = [f \in Paths |->
                 IF f \in present THEN DocFile([file |-> f], 0) ELSE NoFile]
    /\ \E taken \in SUBSET {backup_path(PHONES, 0)} :
         backups = [n \in BackupNames |->
                      IF n \in taken THEN DocFile([file |-> "a backup"], 0) ELSE NoFile]
    /\ inventory = load_inventory([f \in Paths |-> NoFile], secrets_file).value
    /\ proc = [p \in Procs |-> Idle]
    /\ callers = {1}
    /\ now = 0
    /\ nops = 0
    /\ faults = 0
    /\ max_backups = 10
    /\ ami = NoClient

DoBackups(p) == create_backup_called(p) \/ restore_backup_called(p) \/ Return(p)

NextBackups == Tick \/ \E p \in Procs : DoBackups(p)

SpecBackups == InitBackups /\ [][NextBackups]_vars

\* ------------------------------------------------- the AMI client: retries
\* The repository is not used.
NoRepository ==
    /\ secrets_file = FALSE
    /\ fs = [f \in Paths |-> NoFile]
    /\ backups = [n \in BackupNames |-> NoFile]
    /\ inventory = load_inventory(fs, secrets_file).value
    /\ proc = [p \in Procs |-> Idle]
    /\ callers = {}
    /\ now = 0
    /\ nops = 0
    /\ faults = 0
    /\ max_backups = 10

\* What one invocation of the wrapped callable does.
Outcomes == {"True", "False", "raise"}

\* Line 184, the head of `for attempt in range(1, retry_max_attempts + 1)`;
\* lines 202-203 when the range is exhausted.
NextAttempt(a, attempt) ==
    IF attempt > a.retry_max_attempts
    THEN [a EXCEPT !.pc = "done", !.result = "False"]
    ELSE [a EXCEPT !.pc = "call", !.attempt = attempt]

\* Mutant of AfterFailure: the delay is waited after every failure.
AfterFailure_always_sleeps(a) == [a EXCEPT !.pc = "sleep"]

\* Lines 190-195 and 199-200: after an attempt that failed the delay is
\* waited when another attempt follows.
AfterFailure(a) ==
    IF a.attempt < a.retry_max_attempts THEN [a EXCEPT !.pc = "sleep"]
    ELSE NextAttempt(a, a.attempt + 1)

\* AMIClient.execute_with_retry, lines 181-184.
execute_with_retry ==
    /\ ami.pc = "idle"
    /\ ami' = IF ~ami.retry_on_failure THEN [ami EXCEPT !.pc = "direct"]
              ELSE NextAttempt(ami, 1)
    /\ UNCHANGED repository

\* Line 182: return await func(*args, **kwargs); what func returns is
\* returned, what it raises is raised.
func_unguarded ==
    /\ ami.pc = "direct"
    /\ \E r \in Outcomes :
         ami' = [ami EXCEPT !.pc = "done", !.outcomes = Append(@, r),
                            !.result = IF r = "raise" THEN "raised" ELSE r]
    /\ UNCHANGED repository

\* Lines 186-195: func returns; a truthy result ends the loop.
attempt_returns ==
    /\ ami.pc = "call"
    /\ \E r \in {"True", "False"} :
         LET a == [ami EXCEPT !.outcomes = Append(@, r)]
         IN  ami' = IF r = "True" THEN [a EXCEPT !.pc = "done", !.result = "True"]
                   ELSE AfterFailure(a)
    /\ UNCHANGED repository

\* Lines 197-200: func raises an Exception.
attempt_raises ==
    /\ ami.pc = "call"
    /\ ami' = AfterFailure([ami EXCEPT !.outcomes = Append(@, "raise")])
    /\ UNCHANGED repository

\* asyncio.sleep(self.config.retry_delay_seconds), then the next attempt.
asyncio_sleep ==
    /\ ami.pc = "sleep"
    /\ ami' = NextAttempt([ami EXCEPT !.sleeps = @ + 1,
                                      !.waited = @ + ami.retry_delay_seconds],
                          ami.attempt + 1)
    /\ UNCHANGED repository

\* A client with any configuration; outcomes, sleeps and waited are history.
InitRetry ==
    /\ NoRepository
    /\ \E retry \in BOOLEAN, attempts \in 0..MaxAttempts, delay \in {0, 5} :
         ami = [pc |-> "idle", retry_on_failure |-> retry,
                retry_max_attempts |-> attempts, retry_delay_seconds |-> delay,
                attempt |-> 0, outcomes |-> <<>>, sleeps |-> 0, waited |-> 0,
                result |-> "none"]

NextRetry ==
    \/ execute_with_retry \/ func_unguarded
    \/ attempt_returns \/ attempt_raises \/ asyncio_sleep

SpecRetry == InitRetry /\ [][NextRetry]_vars

\* The event loop runs the coroutine on, and func and the sleep return.
SpecRetryFair == SpecRetry /\ WF_vars(NextRetry)

\* --------------------------------------------- the AMI client: connection
\* Calls made of one client, one after the other.
MaxCalls == 4

\* AMIClient.__init__, lines 21-23, with the history of the calls: link is
\* how the last connect or disconnect ended, opened and sent count the
\* calls of manager.connect() and of manager.send_action(), last is the
\* last call with the link, what it returned, and what it opened and sent.
NewClient ==
    [pc |-> "client", _connected |-> FALSE, manager |-> "None",
     link |-> "none", opened |-> 0, sent |-> 0, calls |-> 0,
     last |-> [op |-> "none", link |-> "none", result |-> "none",
               opened |-> 0, sent |-> 0]]

\* A call that ends with the client as b and returns result.
Returned(a, b, op, result) ==
    [b EXCEPT !.calls = a.calls + 1,
              !.link = CASE op = "connect" -> IF result = "True" THEN "connected"
                                              ELSE "failed"
                         [] op = "disconnect" -> "disconnected"
                         [] OTHER -> a.link,
              !.last = [op |-> op, link |-> a.link, result |-> result,
                        opened |-> b.opened - a.opened, sent |-> b.sent - a.sent]]

\* Lines 31, 65 and the negation of lines 84, 149.
IsConnected(a) == a._connected /\ a.manager # "None"

\* Lines 31-61. The import fails, Manager() raises, manager.connect()
\* raises, or the connection is made.
Connect(a, outcome) ==
    IF IsConnected(a) THEN Returned(a, a, "connect", "True")
    ELSE CASE outcome = "ImportError" -> Returned(a, a, "connect", "False")
           [] outcome = "Manager raises" ->
                Returned(a, [a EXCEPT !._connected = FALSE], "connect", "False")
           [] outcome = "connect raises" ->
                Returned(a, [a EXCEPT !.manager = "Manager", !.opened = @ + 1,
                                      !._connected = FALSE], "connect", "False")
           [] OTHER ->
                Returned(a, [a EXCEPT !.manager = "Manager", !.opened = @ + 1,
                                      !._connected = TRUE], "connect", "True")

\* Mutant of Closed: the client stays as it was.
Closed_stays_open(a) == a

\* Lines 71-73.
Closed(a) == [a EXCEPT !._connected = FALSE, !.manager = "None"]

\* Lines 65-73: manager.close() returns or raises.
Disconnect(a) ==
    Returned(a, IF IsConnected(a) THEN Closed(a) ELSE a, "disconnect", "None")

\* Lines 84-103 and 149-167: the action is sent and the response has a
\* true success attribute, is a dict with Response Success, is something
\* else, or send_action raises.
SendAction(a, op, response) ==
    IF ~IsConnected(a) THEN Returned(a, a, op, "AsteriskError")
    ELSE Returned(a, [a EXCEPT !.sent = @ + 1], op,
                  IF response \in {"success", "Success"} THEN "True" ELSE "False")

Called == ami.pc = "client" /\ ami.calls < MaxCalls

connect ==
    /\ Called
    /\ \E outcome \in {"ok", "ImportError", "Manager raises", "connect raises"} :
         ami' = Connect(ami, outcome)
    /\ UNCHANGED repository

disconnect ==
    /\ Called
    /\ ami' = Disconnect(ami)
    /\ UNCHANGED repository

reload_pjsip ==
    /\ Called
    /\ \E response \in {"success", "Success", "other", "raises"} :
         ami' = SendAction(ami, "reload_pjsip", response)
    /\ UNCHANGED repository

verify_endpoint ==
    /\ Called
    /\ \E response \in {"success", "Success", "other", "raises"} :
         ami' = SendAction(ami, "verify_endpoint", response)
    /\ UNCHANGED repository

InitClient == NoRepository /\ ami = NewClient

NextClient == connect \/ disconnect \/ reload_pjsip \/ verify_endpoint

SpecClient == InitClient /\ [][NextClient]_vars

\* ------------------------------------------------- loading with secrets
\* server.reload_inventory, lines 294-303: the inventory is loaded from the
\* files, with the secrets file if it exists, and published.
reload_inventory(p) ==
    /\ Begin(p)
    /\ LET inv == load_inventory(fs, exists(fs, SECRETS))
           l == [Idle EXCEPT !.op = "reload_inventory", !.pre = Snapshot]
       IN  IF inv.ok
           THEN /\ inventory' = inv.value
                /\ Step(p, Finish(l, "ok"))
           ELSE /\ UNCHANGED inventory
                /\ Step(p, Finish(l, "ValidationError"))
    /\ UNCHANGED <<fs, backups, faults>>

\* A second device, extension 201.
Device2 ==
    [mac |-> <<"0","0","-","1","5","-","6","5","-","A","A","-","B","B","-","C","D">>,
     model |-> "yealink_t23g", extension |-> "201", display_name |-> "Bob"]

\* The passwords a secrets file holds.
Vault == [e \in {"200", "201", "202"} |->
            CASE e = "200" -> "vault200" [] e = "201" -> "vault201" [] OTHER -> "vault202"]

\* Files an operator wrote: two devices, each with or without a password
\* in its record, and no secrets file or one with entries for any of the
\* extensions 200, 201 and 202.  The server started before they were put.
InitSecrets ==
    /\ secrets_file = TRUE
    /\ \E pw1 \in {Unset, "secret1"}, pw2 \in {Unset, "secret2"},
          present \in BOOLEAN, entries \in SUBSET {"200", "201", "202"} :
         /\ present \/ entries = {}
         /\ fs = [f \in Paths |->
                 CASE f = PHONES ->
                        DocFile([phones |->
                           <<IF pw1 = Unset THEN Device1 ELSE Put(Device1, "password", pw1),
                             IF pw2 = Unset THEN Device2 ELSE Put(Device2, "password", pw2)>>],
                                0)
                   [] f = SECRETS /\ present ->
                        DocFile([phone_passwords |-> [e \in entries |-> Vault[e]]], 0)
                   [] OTHER -> NoFile]
    /\ backups = [n \in BackupNames |-> NoFile]
    /\ inventory = load_inventory([f \in Paths |-> NoFile], FALSE).value
    /\ proc = [p \in Procs |-> Idle]
    /\ callers = {1}
    /\ now = 0
    /\ nops = 0
    /\ faults = 0
    /\ max_backups = 10
    /\ ami = NoClient

DoSecrets(p) == reload_inventory(p) \/ Return(p)

NextSecrets == \E p \in Procs : DoSecrets(p)

SpecSecrets == InitSecrets /\ [][NextSecrets]_vars

\* ------------------------------------------------------------ identifiers
\* Identifiers: "001565aabbcc", "0c383e123456" and "aabbccddeeff".
macF == <<"0","c","3","8","3","e","1","2","3","4","5","6">>
macU == <<"a","a","b","b","c","c","d","d","e","e","f","f">>

Separators == {<<>>, <<":">>, <<"-">>, <<".">>}

\* A spelling of an identifier: pairs joined by a colon or a hyphen, groups
\* of four joined by dots, or no separator; either case; whitespace around.
Spelling(id, separator, uppercase, left, right) ==
    LET cased == IF uppercase THEN upper(id) ELSE id
        body  == IF separator = <<>> THEN cased
                 ELSE Grouped(cased, IF separator = <<".">> THEN 4 ELSE 2, separator)
    IN  left \o body \o right

ValidSpellings ==
    { Spelling(id, separator, uppercase, left, right) :
        id \in {mac1, macF, macU}, separator \in Separators, uppercase \in BOOLEAN,
        left \in {<<>>, <<" ">>}, right \in {<<>>, <<" ">>, <<"\n">>} }

\* Not identifiers: "", "00:15:65", 13 digits, "001565aabbcg", a space
\* inside, and a newline inside, before a last separator.
InvalidSpellings ==
    { <<>>,
      <<"0","0",":","1","5",":","6","5">>,
      mac1 \o <<"0">>,
      <<"0","0","1","5","6","5","a","a","b","b","c","g">>,
      <<"0","0","1","5","6","5"," ","a","a","b","b","c","c">>,
      mac1 \o <<"\n", ":">>,
      mac1 \o <<"\n", "\n", ":">> }

\* The vendor tables: the first vendor's prefix "001565" in several
\* spellings, the second vendor's "0c383e"; a prefix both vendors have;
\* no vendor.
OuiMaps ==
    { <<[vendor |-> "yealink", prefixes |-> <<<<"8","0","5","E","C","0">>, prefix>>],
        [vendor |-> "Fanvil", prefixes |-> <<<<"0","c","3","8","3","e">>>>]>> :
        prefix \in { <<"0","0","1","5","6","5">>,
                     <<"0","0",":","1","5",":","6","5">>,
                     <<"0","0","-","1","5","-","6","5">>,
                     <<"0","0","1","5",".","6","5">> } }
    \cup { <<[vendor |-> "yealink", prefixes |-> <<<<"0","C",":","3","8",":","3","E">>>>],
             [vendor |-> "Fanvil", prefixes |-> <<<<"0","c","3","8","3","e">>>>]>>,
           <<>> }

\* normalize_mac(raw) is called.
normalize_mac_called(p) ==
    /\ proc[p].pc = "idle"
    /\ p \in callers
    /\ LET n == normalize_mac(proc[p].raw)
           l == [proc[p] EXCEPT !.op = "normalize_mac", !.mac = n.value]
       IN  Step(p, IF n.ok THEN [l EXCEPT !.pc = "normalized"]
                   ELSE Finish(l, "ValueError"))
    /\ UNCHANGED <<fs, backups, inventory, nops, faults>>

\* normalize_mac is called with what it returned.
normalize_mac_again(p) ==
    /\ proc[p].pc = "normalized"
    /\ LET n == normalize_mac(proc[p].mac)
           l == [proc[p] EXCEPT !.data = [again |-> n.value]]
       IN  Step(p, Finish(l, IF n.ok THEN "ok" ELSE "ValueError"))
    /\ UNCHANGED <<fs, backups, inventory, nops, faults>>

\* format_mac(normalize_mac(raw), separator, uppercase) is called, and
\* normalize_mac with what it returned.
format_mac_called(p) ==
    /\ proc[p].pc = "normalized"
    /\ \E separator \in Separators, uppercase \in BOOLEAN :
         LET f == format_mac(proc[p].mac, separator, uppercase)
             n == normalize_mac(f.value)
             l == [proc[p] EXCEPT !.op = "format_mac",
                                  !.data = [separator |-> separator,
                                            uppercase |-> uppercase,
                                            formatted |-> f.value, back |-> n.value]]
         IN  Step(p, Finish(l, IF f.ok /\ n.ok THEN "ok" ELSE "ValueError"))
    /\ UNCHANGED <<fs, backups, inventory, nops, faults>>

\* detect_vendor(raw, oui_map) is called.
detect_vendor_called(p) ==
    /\ proc[p].pc = "idle"
    /\ p \in callers
    /\ \E oui_map \in OuiMaps :
         LET v == detect_vendor(proc[p].raw, oui_map)
             l == [proc[p] EXCEPT !.op = "detect_vendor",
                                  !.data = [oui_map |-> oui_map, vendor |-> v.value]]
         IN  Step(p, Finish(l, IF v.ok THEN "ok" ELSE "ValueError"))
    /\ UNCHANGED <<fs, backups, inventory, nops, faults>>

\* A caller holds a string, an identifier in some spelling or not one.
InitMac ==
    /\ secrets_file = FALSE
    /\ fs = [f \in Paths |-> NoFile]
    /\ backups = [n \in BackupNames |-> NoFile]
    /\ inventory = load_inventory(fs, secrets_file).value
    /\ \E raw \in ValidSpellings \cup InvalidSpellings :
         proc = [p \in Procs |-> IF p = 1 THEN [Idle EXCEPT !.raw = raw] ELSE Idle]
    /\ callers = {1}
    /\ now = 0
    /\ nops = 0
    /\ faults = 0
    /\ max_backups = 10
    /\ ami = NoClient

DoMac(p) ==
    \/ normalize_mac_called(p) \/ normalize_mac_again(p)
    \/ format_mac_called(p) \/ detect_vendor_called(p)

NextMac == \E p \in Procs : DoMac(p)

SpecMac == InitMac /\ [][NextMac]_vars

\* ------------------------------------------------------- a larger device file
\* A second device of another vendor, its mac spelled "0C:38:3E:12:34:56",
\* with a label.
Device3 ==
    [mac |-> <<"0","C",":","3","8",":","3","E",":","1","2",":","3","4",":","5","6">>,
     model |-> "fanvil_x4", extension |-> "201", display_name |-> "Cy",
     label |-> "Lobby"]

\* A directory file with a title, a group and one entry.
StaffDirectory ==
    [phonebook_name |-> "Staff", groups |-> <<[name |-> "Sales"]>>,
     phonebook |-> <<[name |-> "Ann", number |-> "100"]>>]

\* The server has started on a device file with a global block and two
\* devices, with or without a directory file; the passwords are in the
\* records, or in the secrets file.
InitFrame ==
    /\ secrets_file \in BOOLEAN
    /\ \E directory \in BOOLEAN :
         fs = [f \in Paths |->
            CASE f = PHONES ->
                   DocFile([global |-> AltSettings,
                            phones |->
                               IF secrets_file THEN <<Device1, Device3>>
                               ELSE <<Put(Device1, "password", "secret1"),
                                      Put(Device3, "password", "secret2")>>], 0)
              [] f = SECRETS /\ secrets_file ->
                   DocFile([phone_passwords |->
                               [e \in {"200", "201"} |->
                                   IF e = "200" THEN "secret1" ELSE "secret2"]], 0)
              [] f = PHONEBOOK /\ directory -> DocFile(StaffDirectory, 0)
              [] OTHER -> NoFile]
    /\ backups = [n \in BackupNames |-> NoFile]
    /\ inventory = load_inventory(fs, secrets_file).value
    /\ proc = [p \in Procs |-> Idle]
    /\ callers = {1}
    /\ now = 0
    /\ nops = 0
    /\ faults = 0
    /\ max_backups = 10
    /\ ami = NoClient

SpecFrame == InitFrame /\ [][Next]_vars

\* ------------------------------------------- one call after another
\* The server has started on a device file with two devices, on extensions
\* 200 and 202, their passwords in the records or in the secrets file.
\* The first caller deletes or updates a device; when that call has ended
\* the second caller adds one.  Both calls stay on record.
InitRelease ==
    /\ secrets_file \in BOOLEAN
    /\ fs = [f \in Paths |->
            CASE f = PHONES ->
                   DocFile([phones |->
                               IF secrets_file
                               THEN <<Device1, Put(Device3, "extension", "202")>>
                               ELSE <<Put(Device1, "password", "secret1"),
                                      Put(Put(Device3, "extension", "202"),
                                          "password", "secret2")>>], 0)
              [] f = SECRETS /\ secrets_file ->
                   DocFile([phone_passwords |->
                               [e \in {"200", "202"} |->
                                   IF e = "200" THEN "secret1" ELSE "secret2"]], 0)
              [] OTHER -> NoFile]
    /\ backups = [n \in BackupNames |-> NoFile]
    /\ inventory = load_inventory(fs, secrets_file).value
    /\ proc = [p \in Procs |-> Idle]
    /\ callers = Procs
    /\ now = 0
    /\ nops = 0
    /\ faults = 0
    /\ max_backups = 10
    /\ ami = NoClient

DoRelease(p) ==
    \/ (p = 1 /\ delete_phone(p))
    \/ (p = 1 /\ update_phone(p))
    \/ (p = 2 /\ proc[1].pc = "done" /\ add_phone(p))
    \/ add_secrets(p) \/ add_strip(p)
    \/ update_write(p) \/ update_migrate(p)
    \/ delete_secret(p)
    \/ _reload_inventory(p)
    \/ Backup(p) \/ BackupFails(p)
    \/ Stage(p) \/ StageFails(p)
    \/ Validate(p) \/ ValidateFails(p)
    \/ Replace(p) \/ ReplaceFails(p)
    \/ RestoreOpen(p) \/ RestoreCopy(p) \/ RestoreFails(p) \/ SkipRestore(p)
    \/ Cleanup(p)

NextRelease == Tick \/ \E p \in Procs : DoRelease(p)

SpecRelease == InitRelease /\ [][NextRelease]_vars

\* ------------------------------------------------ passwords in two places
\* The server has started on files an operator wrote, a secrets file among
\* them: two devices, each with its password in its record, in the secrets
\* file under its extension, or in both; every key of the secrets file is
\* the extension of a device.
InitCredentials ==
    /\ secrets_file = TRUE
    /\ \E pw1 \in {Unset, "secret1"}, pw2 \in {Unset, "secret2"},
          entries \in SUBSET {"200", "201"} :
         /\ pw1 # Unset \/ "200" \in entries
         /\ pw2 # Unset \/ "201" \in entries
         /\ fs = [f \in Paths |->
                 CASE f = PHONES ->
                        DocFile([phones |->
                           <<IF pw1 = Unset THEN Device1 ELSE Put(Device1, "password", pw1),
                             IF pw2 = Unset THEN Device2 ELSE Put(Device2, "password", pw2)>>],
                                0)
                   [] f = SECRETS ->
                        DocFile([phone_passwords |-> [e \in entries |-> Vault[e]]], 0)
                   [] OTHER -> NoFile]
    /\ backups = [n \in BackupNames |-> NoFile]
    /\ inventory = load_inventory(fs, secrets_file).value
    /\ proc = [p \in Procs |-> Idle]
    /\ callers = {1}
    /\ now = 0
    /\ nops = 0
    /\ faults = 0
    /\ max_backups = 10
    /\ ami = NoClient

\* The operations, with every write succeeding.
DoCredentials(p) ==
    \/ add_phone(p) \/ add_secrets(p) \/ add_strip(p)
    \/ update_phone(p) \/ update_write(p) \/ update_migrate(p)
    \/ delete_phone(p) \/ delete_secret(p)
    \/ update_global_settings(p) \/ add_phonebook_entry(p)
    \/ SkipBackup(p) \/ Backup(p) \/ Stage(p) \/ Validate(p) \/ Replace(p)
    \/ _reload_inventory(p) \/ Return(p)

NextCredentials == \E p \in Procs : DoCredentials(p)

SpecCredentials == InitCredentials /\ [][NextCredentials]_vars

\* ----------------------------------------------- two callers, two devices
\* Two callers of one repository that has no secrets file; the device file
\* holds a device that neither caller names.
InitInterleaved ==
    /\ secrets_file = FALSE
    /\ fs = [f \in Paths |->
               IF f = PHONES
               THEN DocFile([phones |-> <<Put(Device3, "password", "secret2")>>], 0)
               ELSE NoFile]
    /\ backups = [n \in BackupNames |-> NoFile]
    /\ inventory = load_inventory(fs, secrets_file).value
    /\ proc = [p \in Procs |-> Idle]
    /\ callers = Procs
    /\ now = 0
    /\ nops = 0
    /\ faults = 0
    /\ max_backups = 10
    /\ ami = NoClient

SpecInterleaved == InitInterleaved /\ [][NextConcurrent]_vars

\* ------------------------------------------------------ resolving settings
\* The values a device file gives an override: none, one Python takes for
\* false, and another.
OverrideInputs ==
    [pbx_server |-> {Unset, "", "pbx.branch.local"},
     pbx_port |-> {Unset, "0", "5070"},
     transport |-> {Unset, "", "TLS"},
     label |-> {Unset, "", "Front desk"},
     codecs |-> {Unset, "", "PCMA"}]

\* The record of Device1 with the overrides chosen.
Overridden(choice) ==
    [k \in DOMAIN Device1 \cup {"password"} \cup {o \in PhoneOptional : choice[o] # Unset}
       |-> CASE k = "password" -> "secret1"
             [] k \in DOMAIN Device1 -> Device1[k]
             [] k = "pbx_port" -> IF choice[k] = "0" THEN 0 ELSE 5070
             [] k = "codecs" -> IF choice[k] = "" THEN <<>> ELSE <<choice[k]>>
             [] OTHER -> choice[k]]

\* server.provision_auto, lines 167-209: the device is looked up in the
\* live inventory and its settings resolved; data is what the generator gets.
provision_auto(p) ==
    /\ p \in callers
    /\ proc[p].pc = "idle"
    /\ \E i \in 1..Len(inventory.phones) :
         LET phone == inventory.phones[i]
         IN  Step(p, Finish([Idle EXCEPT !.op = "provision_auto", !.phone = phone,
                                         !.data = get_effective_settings(inventory, phone),
                                         !.pre = Snapshot],
                            "ok"))
    /\ UNCHANGED <<fs, backups, inventory, nops, faults>>

\* The server has started on a device file that holds one device, with any
\* of the overrides; there is no secrets file.
InitResolve ==
    /\ secrets_file = FALSE
    /\ \E choice \in [PhoneOptional -> {Unset, "", "pbx.branch.local", "0", "5070",
                                         "TLS", "Front desk", "PCMA"}] :
         /\ \A k \in PhoneOptional : choice[k] \in OverrideInputs[k]
         /\ fs = [f \in Paths |->
                 IF f = PHONES THEN DocFile([phones |-> <<Overridden(choice)>>], 0)
                 ELSE NoFile]
    /\ backups = [n \in BackupNames |-> NoFile]
    /\ inventory = load_inventory(fs, secrets_file).value
    /\ proc = [p \in Procs |-> Idle]
    /\ callers = {1}
    /\ now = 0
    /\ nops = 0
    /\ faults = 0
    /\ max_backups = 10
    /\ ami = NoClient

\* Settings are resolved between changes of the global settings.
DoResolve(p) ==
    \/ provision_auto(p) \/ update_global_settings(p)
    \/ Backup(p) \/ Stage(p) \/ Validate(p) \/ Replace(p)
    \/ _reload_inventory(p) \/ Return(p)

NextResolve == \E p \in Procs : DoResolve(p)

SpecResolve == InitResolve /\ [][NextResolve]_vars

\* ------------------------------------------------------------------ claims
\* The device records of a device file, and the passwords of a secrets file.
FilePhones(file) == Get(file.doc, "phones", <<>>)

FileSecrets(file) == Get(file.doc, "phone_passwords", EmptyDict)

\* The canonical identifier of a stored record.
Canon(phone_dict) == normalize_mac(phone_dict["mac"]).value

IsCanonical(mac) == Len(mac) = 12 /\ \A i \in 1..12 : mac[i] \in Hex

NoDuplicates(records) ==
    \A i, j \in 1..Len(records) :
        i < j => /\ Canon(records[i]) # Canon(records[j])
                 /\ records[i]["extension"] # records[j]["extension"]

\* The indexes of the records with a canonical identifier.
WithMac(records, mac) == {i \in 1..Len(records) : Canon(records[i]) = mac}

\* The inventory as it loaded when the caller's operation was called.
PreInventory(l) == load_inventory(l.pre.fs, secrets_file)

Ended(l, op) == l.pc = "done" /\ l.op = op

\* C1: calls made one after the other, succeeding or failing, never leave two
\* device records with the same canonical identifier or the same extension,
\* in the device file or in the live inventory.
C1_Uniqueness ==
    /\ NoDuplicates(FilePhones(fs[PHONES]))
    /\ NoDuplicates(inventory.phones)

C1_Witness ==
    /\ Ended(proc[1], "update_phone")
    /\ proc[1].result = "ok"
    /\ "extension" \in DOMAIN proc[1].updates
    /\ Len(FilePhones(fs[PHONES])) = 2
    /\ Len(inventory.phones) = 2

\* C2: from the moment a write of a target file begins, the target holds
\* its content of before the write or the complete new document.
C2_OldOrNew ==
    \A p \in Procs :
        proc[p].w.file # "" =>
            Content(fs[proc[p].w.file])
                \in {Content(proc[p].w.old), Content(DocFile(proc[p].w.data, 0))}

\* C3: a write whose serialization or validation step failed ends in
\* PersistenceError with the target's content as before the call.
C3_FailedWrite ==
    \A p \in Procs :
        (proc[p].pc = "done" /\ proc[p].w.failed \in {"stage", "validate"}) =>
            /\ proc[p].result = "PersistenceError"
            /\ Content(fs[proc[p].w.file]) = Content(proc[p].w.old)

\* C4: add_phone with an identifier that, in canonical form, is the
\* identifier of a record of the inventory fails with DuplicateMACError and
\* the inventory still has exactly one record with it; a successful
\* add_phone has stored the record under the canonical identifier.
C4_DuplicateIdentifier ==
    \A p \in Procs :
        Ended(proc[p], "add_phone") =>
            /\ (/\ proc[p].phone # EmptyDict
                /\ PreInventory(proc[p]).ok
                /\ get_phone_by_mac(PreInventory(proc[p]).value, proc[p].phone["mac"]))
               => /\ proc[p].result = "DuplicateMACError"
                  /\ Cardinality(WithMac(FilePhones(fs[PHONES]), proc[p].phone["mac"])) = 1
                  /\ Cardinality(WithMac(load_inventory(fs, secrets_file).value.phones,
                                         proc[p].phone["mac"])) = 1
            /\ proc[p].result = "ok"
               => /\ IsCanonical(proc[p].phone["mac"])
                  /\ \E i \in 1..Len(FilePhones(fs[PHONES])) :
                         FilePhones(fs[PHONES])[i]["mac"] = proc[p].phone["mac"]

\* The second add_phone of the scenario: the record was stored by an earlier
\* add_phone, and the caller spells the identifier with separators.
C4_Witness ==
    /\ Ended(proc[1], "add_phone")
    /\ proc[1].result = "DuplicateMACError"
    /\ proc[1].raw # proc[1].phone["mac"]
    /\ nops = 2
    /\ FilePhones(fs[PHONES])[1]["mac"] = proc[1].phone["mac"]

\* An add_phone of a valid record whose extension a record of the inventory
\* holds.
ExtensionTaken(l) ==
    /\ Ended(l, "add_phone")
    /\ l.phone # EmptyDict
    /\ PreInventory(l).ok
    /\ \E i \in 1..Len(PreInventory(l).value.phones) :
           PreInventory(l).value.phones[i]["extension"] = l.phone["extension"]

\* C5 as stated: add_phone of a record whose extension is taken fails with
\* DuplicateExtensionError whatever its identifier, the records unchanged.
C5_Original ==
    \A p \in Procs :
        ExtensionTaken(proc[p]) =>
            /\ proc[p].result = "DuplicateExtensionError"
            /\ fs[PHONES] = proc[p].pre.fs[PHONES]

\* C5 amended: it fails with DuplicateMACError when its identifier is taken
\* too, with DuplicateExtensionError otherwise; the records are unchanged.
C5_Amended ==
    \A p \in Procs :
        ExtensionTaken(proc[p]) =>
            /\ proc[p].result =
                  IF get_phone_by_mac(PreInventory(proc[p]).value, proc[p].phone["mac"])
                  THEN "DuplicateMACError" ELSE "DuplicateExtensionError"
            /\ fs[PHONES] = proc[p].pre.fs[PHONES]

C5_Witness ==
    /\ ExtensionTaken(proc[1])
    /\ proc[1].result = "DuplicateExtensionError"
    /\ ~get_phone_by_mac(PreInventory(proc[1]).value, proc[1].phone["mac"])

\* The rejections C6 names.
Rejected(l) ==
    \/ l.op = "add_phone" /\ l.result \in {"DuplicateMACError", "DuplicateExtensionError"}
    \/ l.op = "update_phone" /\ l.result \in {"PhoneNotFoundError", "DuplicateExtensionError"}
    \/ l.op = "delete_phone" /\ l.result = "PhoneNotFoundError"
    \/ /\ l.op \in {"update_phonebook_entry", "delete_phonebook_entry"}
       /\ l.result = "PhonebookEntryNotFoundError"

\* C6: a rejected call has touched no file: every file, temporary files
\* included, and every backup is as it was when the call was made.
C6_RejectedBeforeAnyWrite ==
    \A p \in Procs :
        (proc[p].pc = "done" /\ Rejected(proc[p])) =>
            /\ fs = proc[p].pre.fs
            /\ backups = proc[p].pre.backups

C6_Witness ==
    /\ Ended(proc[1], "update_phone")
    /\ proc[1].result = "DuplicateExtensionError"
    /\ "password" \in DOMAIN proc[1].updates
    /\ exists(fs, SECRETS)

\* The stored record of the device a caller's add_phone or update_phone is
\* about has no password field.
StoredWithoutPassword(mac) ==
    /\ WithMac(FilePhones(fs[PHONES]), mac) # {}
    /\ \A i \in WithMac(FilePhones(fs[PHONES]), mac) :
           "password" \notin DOMAIN FilePhones(fs[PHONES])[i]

\* After an add_phone, the password is in the secrets file only.
SecretSplit(l) ==
    /\ StoredWithoutPassword(l.phone["mac"])
    /\ l.phone["extension"] \in DOMAIN FileSecrets(fs[SECRETS])
    /\ FileSecrets(fs[SECRETS])[l.phone["extension"]] = l.phone["password"]

\* C7 as stated: with a secrets file configured, a successful add_phone
\* leaves the password in the secrets file only.
C7_Original ==
    \A p \in Procs :
        (Ended(proc[p], "add_phone") /\ proc[p].result = "ok" /\ secrets_file)
            => SecretSplit(proc[p])

\* C7 amended: with a secrets file configured and present on disk.
C7_Amended ==
    \A p \in Procs :
        (Ended(proc[p], "add_phone") /\ proc[p].result = "ok" /\ SecretsPresent)
            => SecretSplit(proc[p])

C7_Witness ==
    /\ Ended(proc[1], "add_phone")
    /\ proc[1].result = "ok"
    /\ SecretsPresent
    /\ Len(FilePhones(fs[PHONES])) = 2

\* A successful update_phone, the secrets file present, that changed the
\* extension and gave no password.
Migrated(l) ==
    /\ Ended(l, "update_phone")
    /\ l.result = "ok"
    /\ SecretsPresent
    /\ "extension" \in DOMAIN l.updates
    /\ "password" \notin DOMAIN l.updates
    /\ l.updates["extension"] # l.old_extension

\* C8: with a secrets file in use, after a successful update_phone that
\* changes the extension and gives no password, the secrets file maps the
\* new extension to the value it held under the old one, and has no entry
\* under the old one.
C8_SecretMigrated ==
    \A p \in Procs :
        Migrated(proc[p]) =>
            /\ proc[p].old_extension \in DOMAIN FileSecrets(proc[p].pre.fs[SECRETS])
               => /\ proc[p].updates["extension"] \in DOMAIN FileSecrets(fs[SECRETS])
                  /\ FileSecrets(fs[SECRETS])[proc[p].updates["extension"]]
                        = FileSecrets(proc[p].pre.fs[SECRETS])[proc[p].old_extension]
            /\ proc[p].old_extension \notin DOMAIN FileSecrets(fs[SECRETS])

C8_Witness ==
    /\ Migrated(proc[1])
    /\ proc[1].old_extension = "200"
    /\ "200" \in DOMAIN FileSecrets(proc[1].pre.fs[SECRETS])
    /\ proc[1].updates["extension"] = "201"

\* A successful update_phone that gave a password.
PasswordUpdated(l) ==
    /\ Ended(l, "update_phone")
    /\ l.result = "ok"
    /\ "password" \in DOMAIN l.updates

\* The password is in the secrets file under the extension the device has
\* after the update, and the call left the stored record's password field
\* as it was.
OnlyInSecrets(l) ==
    LET ext == Get(l.updates, "extension", l.old_extension)
        was == FilePhones(l.pre.fs[PHONES])[FindPhone(FilePhones(l.pre.fs[PHONES]), l.mac)]
        is  == FilePhones(fs[PHONES])[FindPhone(FilePhones(fs[PHONES]), l.mac)]
    IN  /\ ext \in DOMAIN FileSecrets(fs[SECRETS])
        /\ FileSecrets(fs[SECRETS])[ext] = l.updates["password"]
        /\ ("password" \in DOMAIN is) = ("password" \in DOMAIN was)
        /\ "password" \in DOMAIN is => is["password"] = was["password"]

\* C9 as stated: with a secrets file configured.
C9_Original ==
    \A p \in Procs : (PasswordUpdated(proc[p]) /\ secrets_file) => OnlyInSecrets(proc[p])

\* C9 amended: with a secrets file configured and present on disk.
C9_Amended ==
    \A p \in Procs : (PasswordUpdated(proc[p]) /\ SecretsPresent) => OnlyInSecrets(proc[p])

C9_Witness ==
    /\ PasswordUpdated(proc[1])
    /\ SecretsPresent
    /\ "extension" \in DOMAIN proc[1].updates
    /\ proc[1].updates["extension"] # proc[1].old_extension

\* C10: delete_phone fails with PhoneNotFoundError when no record has the
\* identifier; when it succeeds, exactly the matching record is gone from
\* the device file and the secrets file has no entry under its extension.
C10_Delete ==
    \A p \in Procs :
        Ended(proc[p], "delete_phone") =>
            LET was == FilePhones(proc[p].pre.fs[PHONES])
                i   == FindPhone(was, proc[p].mac)
            IN  /\ (proc[p].mac # <<>> /\ i = 0) => proc[p].result = "PhoneNotFoundError"
                /\ proc[p].result = "ok" =>
                      /\ i # 0
                      /\ FilePhones(fs[PHONES]) = Pop(was, i)
                      /\ was[i]["extension"] \notin DOMAIN FileSecrets(fs[SECRETS])

\* An update_phone with a well-formed identifier, called on a device file
\* that loads.
UpdateCalled(l) ==
    /\ Ended(l, "update_phone")
    /\ l.mac # <<>>
    /\ _load_yaml(l.pre.fs, PHONES).ok

\* The update names an extension other than the one the record has, and a
\* record at another position has it.
TakenByOther(l) ==
    LET was == FilePhones(l.pre.fs[PHONES])
    IN  /\ "extension" \in DOMAIN l.updates
        /\ \A i \in WithMac(was, l.mac) : was[i]["extension"] # l.updates["extension"]
        /\ \E j \in (1..Len(was)) \ WithMac(was, l.mac) :
               was[j]["extension"] = l.updates["extension"]

\* C11: update_phone fails with PhoneNotFoundError exactly when no record
\* has the identifier; for a record that is found (and an inventory that
\* loads) it fails with DuplicateExtensionError exactly when the update
\* changes the extension to one a record other than the updated one holds,
\* so an update naming the record's own extension is never rejected as a
\* duplicate.
C11_UpdateUniqueness ==
    \A p \in Procs :
        UpdateCalled(proc[p]) =>
            LET l == proc[p]
                found == WithMac(FilePhones(l.pre.fs[PHONES]), l.mac) # {}
            IN  /\ (l.result = "PhoneNotFoundError") <=> ~found
                /\ (found /\ PreInventory(l).ok) =>
                      ((l.result = "DuplicateExtensionError") <=> TakenByOther(l))

\* An update that names the record's own extension while another device
\* exists.
C11_Witness ==
    /\ UpdateCalled(proc[1])
    /\ proc[1].result = "ok"
    /\ "extension" \in DOMAIN proc[1].updates
    /\ proc[1].updates["extension"] = proc[1].old_extension
    /\ Len(FilePhones(proc[1].pre.fs[PHONES])) = 2

\* The record of the live inventory with a canonical identifier (the
\* inventory holds at most one, by C1).
LivePhone(mac) ==
    inventory.phones[CHOOSE i \in 1..Len(inventory.phones) : inventory.phones[i]["mac"] = mac]

\* What a read of the live inventory shows of the operation that ended.
Observed(l) ==
    CASE l.op = "add_phone" ->
            /\ get_phone_by_mac(inventory, l.phone["mac"])
            /\ LivePhone(l.phone["mac"]) = l.phone
      [] l.op = "update_phone" ->
            /\ get_phone_by_mac(inventory, l.mac)
            /\ \A k \in DOMAIN l.updates : LivePhone(l.mac)[k] = l.updates[k]
      [] l.op = "delete_phone" -> ~get_phone_by_mac(inventory, l.mac)
      [] l.op = "update_global_settings" ->
            inventory.global_settings = l.data["global"]
      [] l.op \in {"add_phonebook_entry", "update_phonebook_entry",
                   "delete_phonebook_entry"} ->
            inventory.phonebook = l.data["phonebook"]
      [] OTHER -> FALSE

\* C12: when a mutating operation has returned successfully, the live
\* inventory is the inventory the durable files load to, and a read of it
\* shows the mutation: the added device with its fields, the updated
\* fields, no deleted device, the new settings, the new directory.
C12_LiveEqualsDurable ==
    \A p \in Procs :
        (proc[p].pc = "done" /\ proc[p].result = "ok") =>
            /\ load_inventory(fs, secrets_file).ok
            /\ inventory = load_inventory(fs, secrets_file).value
            /\ Observed(proc[p])

C12_Witness ==
    /\ Ended(proc[1], "delete_phone")
    /\ proc[1].result = "ok"
    /\ Len(proc[1].pre.inventory.phones) = 2
    /\ Len(inventory.phones) = 1

\* C13: while a mutating operation runs, between its file writes included,
\* and after it has failed, the live inventory is the one of before the
\* call; after it has succeeded, it is the one the files load to once all
\* writes of the operation are done.
C13_PreOrPost ==
    \A p \in Procs :
        proc[p].pc # "idle" =>
            IF proc[p].pc = "done" /\ proc[p].result = "ok"
            THEN inventory = load_inventory(fs, secrets_file).value
            ELSE inventory = proc[p].pre.inventory

\* Between the second and the third write of add_phone: the files load to
\* an inventory with the new device, the live inventory has no such device.
C13_Witness ==
    /\ proc[1].pc = "add_strip"
    /\ load_inventory(fs, secrets_file).ok
    /\ get_phone_by_mac(load_inventory(fs, secrets_file).value, proc[1].phone["mac"])
    /\ ~get_phone_by_mac(inventory, proc[1].phone["mac"])

\* The call would pass its checks if it ran alone on the files it found.
PassesAlone(l) ==
    CASE l.op = "add_phone" ->
            /\ l.phone # EmptyDict
            /\ PreInventory(l).ok
            /\ \A i \in 1..Len(PreInventory(l).value.phones) :
                   /\ PreInventory(l).value.phones[i]["mac"] # l.phone["mac"]
                   /\ PreInventory(l).value.phones[i]["extension"] # l.phone["extension"]
      [] l.op = "update_phone" ->
            /\ l.mac # <<>>
            /\ WithMac(FilePhones(l.pre.fs[PHONES]), l.mac) # {}
            /\ ~TakenByOther(l)
      [] OTHER -> FALSE

\* Both calls ran their checks on the same device file: neither had
\* committed when the other checked.
BothChecked ==
    /\ \A p \in Procs : proc[p].pc = "done"
    /\ proc[1].pre.fs[PHONES] = proc[2].pre.fs[PHONES]
    /\ PassesAlone(proc[1])
    /\ PassesAlone(proc[2])

\* C14: nothing serializes the check and the write of add_phone and
\* update_phone: of two interleaved calls that ran their checks before
\* either committed, neither is rejected by a uniqueness check, whatever
\* the other has committed since; both can succeed and leave two records
\* with the same identifier or the same extension (the witness).
C14_NoMutualExclusion ==
    BothChecked =>
        \A p \in Procs :
            proc[p].result \notin {"DuplicateMACError", "DuplicateExtensionError",
                                   "PhoneNotFoundError"}

C14_Witness ==
    /\ BothChecked
    /\ \A p \in Procs : proc[p].result = "ok"
    /\ ~NoDuplicates(FilePhones(fs[PHONES]))

\* C15: a write goes through backup, stage, validate, rename in that order.
\* Up to the rename the target is as the write found it; once past the
\* backup step, a target that existed has a backup with its content and a
\* target that did not exist has none; once past the stage step the
\* temporary file holds the whole new document, which parses.
C15_WriteOrder ==
    \A p \in Procs :
        LET l == proc[p]
            f == l.w.file
        IN  l.pc \in {"backup", "stage", "validate", "rename"} =>
              /\ Content(fs[f]) = Content(l.w.old)
              /\ l.pc # "backup" =>
                    IF l.w.old.kind # "none"
                    THEN /\ l.w.has_backup
                         /\ Content(backups[l.w.backup]) = Content(l.w.old)
                    ELSE /\ ~l.w.has_backup
                         /\ BackupsOf(backups, stem(f)) = {}
              /\ l.pc \in {"validate", "rename"} =>
                    /\ Content(fs[with_suffix(f)]) = Content(DocFile(l.w.data, 0))
                    /\ safe_load(fs[with_suffix(f)]).ok

\* The write of an existing file is about to commit a document that differs
\* from the target's.
C15_Witness ==
    /\ proc[1].pc = "rename"
    /\ proc[1].w.old.kind = "doc"
    /\ proc[1].w.has_backup
    /\ Content(fs[proc[1].w.file]) # Content(fs[with_suffix(proc[1].w.file)])

\* A write has failed at its stage, validate or rename step and the error
\* has reached the caller.
WriteFailed(l) == l.pc = "done" /\ l.w.failed \in {"stage", "validate", "rename"}

\* C16: when a write has failed at the stage, validate or rename step and
\* the error has reached the caller, the temporary file does not exist, the
\* target has the content of the backup if one was taken, and the error is
\* a PersistenceError.
C16_RolledBack ==
    \A p \in Procs :
        WriteFailed(proc[p]) =>
            /\ ~exists(fs, with_suffix(proc[p].w.file))
            /\ proc[p].w.has_backup =>
                  Content(fs[proc[p].w.file]) = Content(backups[proc[p].w.backup])
            /\ proc[p].result = "PersistenceError"

\* The directory a directory file holds, as the operations read it.
Directory(fsys) == Get(_load_yaml(fsys, PHONEBOOK).data, "phonebook", <<>>)

Readable(fsys) == _load_yaml(fsys, PHONEBOOK).ok

OutOfBounds(l) == l.index < 0 \/ l.index >= Len(Directory(l.pre.fs))

IndexedCall(l) ==
    /\ Ended(l, "update_phonebook_entry") \/ Ended(l, "delete_phonebook_entry")
    /\ Readable(l.pre.fs)

\* C17: an update or a delete of a directory entry fails with
\* PhonebookEntryNotFoundError exactly when the index is below 0 or not below
\* the length of the directory; the failure leaves the directory file and
\* the live directory as they were; an update that succeeds keeps the length
\* and every entry but the one at the index, which is the entry given.
C17_IndexBounds ==
    \A p \in Procs :
        LET l == proc[p]
            was == Directory(l.pre.fs)
            is == Directory(fs)
        IN  IndexedCall(l) =>
              /\ l.result = "PhonebookEntryNotFoundError" <=> OutOfBounds(l)
              /\ l.result = "PhonebookEntryNotFoundError" =>
                    /\ fs = l.pre.fs
                    /\ inventory.phonebook = l.pre.inventory.phonebook
              /\ (l.op = "update_phonebook_entry" /\ l.result = "ok") =>
                    /\ Len(is) = Len(was)
                    /\ is[l.index + 1] = l.entry
                    /\ \A j \in 1..Len(was) : j # l.index + 1 => is[j] = was[j]
                    /\ inventory.phonebook = is

\* The second of three entries has been replaced by another.
C17_Witness ==
    /\ Ended(proc[1], "update_phonebook_entry")
    /\ proc[1].result = "ok"
    /\ proc[1].index = 1
    /\ Len(Directory(proc[1].pre.fs)) = 3
    /\ Directory(fs) # Directory(proc[1].pre.fs)

\* C18: a delete that succeeds removes the entry at the index and moves
\* every later entry one position down; deleting index 0 from what a delete
\* of index 0 left of the three-entry directory leaves its third entry
\* alone; an add that succeeds puts the entry given at position n, the old
\* length, and keeps positions 0..n-1.
C18_DeleteShiftsAddAppends ==
    \A p \in Procs :
        LET l == proc[p]
            was == Directory(l.pre.fs)
            is == Directory(fs)
        IN  /\ (Ended(l, "delete_phonebook_entry") /\ l.result = "ok") =>
                  /\ Len(is) = Len(was) - 1
                  /\ \A j \in 1..Len(is) :
                        is[j] = IF j <= l.index THEN was[j] ELSE was[j + 1]
                  /\ inventory.phonebook = is
                  /\ (l.index = 0 /\ was = Tail(DirectoryEntries)) =>
                        is = <<DirectoryEntries[3]>>
            /\ (Ended(l, "add_phonebook_entry") /\ l.result = "ok") =>
                  /\ Len(is) = Len(was) + 1
                  /\ is[Len(was) + 1] = l.entry
                  /\ \A j \in 1..Len(was) : is[j] = was[j]
                  /\ inventory.phonebook = is

\* The second delete of index 0 has succeeded: the first one was backed up
\* from the three-entry directory.
C18_Witness ==
    /\ Ended(proc[1], "delete_phonebook_entry")
    /\ proc[1].result = "ok"
    /\ proc[1].index = 0
    /\ nops = 2
    /\ Directory(proc[1].pre.fs) = Tail(DirectoryEntries)
    /\ \E b \in BackupNames :
          Get(proc[1].pre.backups[b].doc, "phonebook", <<>>) = DirectoryEntries
    /\ Directory(fs) = <<DirectoryEntries[3]>>

\* The errors of the uniqueness and existence checks.
CheckErrors ==
    {"DuplicateMACError", "DuplicateExtensionError", "PhoneNotFoundError",
     "ValueError", "PhonebookEntryNotFoundError"}

\* C19: update_global_settings is refused by no check and succeeds when no
\* file operation fails; when it has succeeded the global block of the
\* device file and the live global settings are the six fields given, and
\* the device records of the file are the ones it held before.
C19_GlobalReplaced ==
    \A p \in Procs :
        LET l == proc[p]
        IN  Ended(l, "update_global_settings") =>
              /\ l.result \notin CheckErrors
              /\ faults = 0 => l.result = "ok"
              /\ l.result = "ok" =>
                    /\ fs[PHONES].kind = "doc"
                    /\ fs[PHONES].doc["global"] = l.settings
                    /\ DOMAIN fs[PHONES].doc["global"] =
                          {"pbx_server", "pbx_port", "transport", "ntp_server",
                           "timezone", "codecs"}
                    /\ inventory.global_settings = l.settings
                    /\ FilePhones(fs[PHONES]) = FilePhones(l.pre.fs[PHONES])

\* The settings of a device file that holds a device have been replaced by
\* other ones.
C19_Witness ==
    /\ Ended(proc[1], "update_global_settings")
    /\ proc[1].result = "ok"
    /\ Len(FilePhones(fs[PHONES])) > 0
    /\ inventory.global_settings # proc[1].pre.inventory.global_settings

\* C20: the resolved settings of a device have, for pbx_server, pbx_port,
\* transport and codecs, the record's override when the record has one and
\* the global value otherwise; ntp_server and timezone of the global
\* settings; extension, display_name, password, mac and model of the record;
\* and as label the record's label when it has one, else its display_name.
C20_Resolve ==
    \A p \in Procs :
        LET l == proc[p]
            g == inventory.global_settings
        IN  Ended(l, "provision_auto") =>
              /\ \A k \in {"pbx_server", "pbx_port", "transport", "codecs"} :
                    l.data[k] = IF k \in DOMAIN l.phone THEN l.phone[k] ELSE g[k]
              /\ \A k \in {"ntp_server", "timezone"} : l.data[k] = g[k]
              /\ \A k \in {"extension", "display_name", "password", "mac", "model"} :
                    l.data[k] = l.phone[k]
              /\ l.data["label"] = IF "label" \in DOMAIN l.phone THEN l.phone["label"]
                                   ELSE l.phone["display_name"]

\* The backups kept of the directory file, and the numbers of the writes
\* that made them: write k backs up the directory of k - 1 entries.
Kept == BackupsOf(backups, stem(PHONEBOOK))

MadeBy == {Len(Get(backups[n].doc, "phonebook", <<>>)) + 1 : n \in Kept}

\* The caller's last write has returned, and it was write number nops.
Written(l) == l.pc = "done" /\ l.result = "ok" /\ l.op = "add_phonebook_entry"

\* C21 as stated: after Retention + 5 successful writes of one file exactly
\* Retention backups of it remain, those of the last Retention writes.
C21_Original ==
    \A p \in Procs :
        (Written(proc[p]) /\ nops = Retention + 5) =>
            /\ Cardinality(Kept) = max_backups
            /\ MadeBy = (nops - max_backups + 1)..nops

\* C21 amended: at most max_backups backups of a file are kept after any
\* snapshot; after k successful writes made in k different seconds the
\* backups kept are those of the last min(k, max_backups) writes, one each,
\* so that exactly Retention remain after Retention + 5 such writes.
C21_Amended ==
    /\ Cardinality(Kept) <= max_backups
    /\ \A p \in Procs :
          LET l == proc[p]
              n == IF nops < max_backups THEN nops ELSE max_backups
          IN  (Written(l) /\ Cardinality(l.seconds) = nops) =>
                 /\ Cardinality(Kept) = n
                 /\ MadeBy = (nops - n + 1)..nops

\* Retention + 5 writes, each in a second of its own, have been made.
C21_Witness ==
    /\ Written(proc[1])
    /\ nops = Retention + 5
    /\ Cardinality(proc[1].seconds) = nops
    /\ Cardinality(Kept) = Retention

\* C22: create_backup raises FileNotFoundError exactly when the file does
\* not exist, and restore_backup exactly when the backup does not exist;
\* then the backups and the files are as they were.  A restore that
\* succeeds leaves the target with the content of the backup, and the
\* backups as they were.
C22_NotFound ==
    \A p \in Procs :
        LET l == proc[p]
        IN  /\ Ended(l, "create_backup") =>
                  /\ l.result = "FileNotFoundError" <=> l.pre.fs[l.w.file].kind = "none"
                  /\ l.result = "ok" =>
                        Content(backups[l.w.backup]) = Content(l.pre.fs[l.w.file])
            /\ Ended(l, "restore_backup") =>
                  /\ l.result = "FileNotFoundError" <=>
                        l.pre.backups[l.w.backup].kind = "none"
                  /\ l.result = "ok" =>
                        /\ Content(fs[l.w.file]) = Content(l.pre.backups[l.w.backup])
                        /\ backups = l.pre.backups
            /\ (l.pc = "done" /\ l.result = "FileNotFoundError") =>
                  /\ backups = l.pre.backups
                  /\ fs = l.pre.fs

\* A backup has been restored over a file of another content.
C22_Witness ==
    /\ Ended(proc[1], "restore_backup")
    /\ proc[1].result = "ok"
    /\ proc[1].pre.fs[proc[1].w.file].kind = "doc"
    /\ Content(proc[1].pre.fs[proc[1].w.file]) # Content(fs[proc[1].w.file])

\* C23: whatever the configuration and whatever the wrapped callable does,
\* execute_with_retry gives its caller a boolean and raises nothing, and it
\* gives False when every attempt has failed.
C23_NeverRaises ==
    ami.pc = "done" =>
        /\ ami.result \in {"True", "False"}
        /\ (\A i \in 1..Len(ami.outcomes) : ami.outcomes[i] # "True") =>
              ami.result = "False"

\* The invocations of the wrapped callable so far.
Calls == Len(ami.outcomes)

AllFailed == \A i \in 1..Calls : ami.outcomes[i] # "True"

RetryBounded ==
    ami.retry_on_failure =>
        /\ Calls <= ami.retry_max_attempts
        /\ \A i \in 1..(Calls - 1) : ami.outcomes[i] # "True"
        /\ ami.sleeps <= Calls
        /\ ami.waited = ami.sleeps * ami.retry_delay_seconds
        /\ ami.pc = "call" => ami.sleeps = Calls
        /\ ami.pc = "done" =>
              /\ ami.result = (IF AllFailed THEN "False" ELSE "True")
              /\ AllFailed => Calls = ami.retry_max_attempts
              /\ ami.sleeps = (IF Calls = 0 THEN 0 ELSE Calls - 1)

\* C28: with retry enabled and retry_max_attempts = K the wrapped callable
\* is invoked at most K times and not again after a truthy result, which
\* makes the wrapper return True; it is invoked exactly K times when every
\* attempt returns false or raises; the delay is waited once between two
\* attempts and not after the last; and the wrapper returns.
C28_Retry == []RetryBounded /\ <>(ami.retry_on_failure => ami.pc = "done")

\* Three attempts have failed, one of them by raising, with two waits.
C28_Witness ==
    /\ ami.pc = "done"
    /\ ami.retry_on_failure
    /\ ami.retry_max_attempts = 3
    /\ Calls = 3
    /\ ami.sleeps = 2
    /\ ami.waited = 10
    /\ \E i \in 1..Calls : ami.outcomes[i] = "raise"
    /\ ami.result = "False"

\* C24: in a loaded inventory the password of each device is the entry of
\* the secrets file for its extension when there is one, and the password
\* of its record in the device file otherwise.
C24_SecretsOverride ==
    \A p \in Procs :
        (Ended(proc[p], "reload_inventory") /\ proc[p].result = "ok") =>
            LET records == FilePhones(fs[PHONES])
                secrets == FileSecrets(fs[SECRETS])
            IN  /\ Len(inventory.phones) = Len(records)
                /\ \A i \in 1..Len(records) :
                      inventory.phones[i]["password"] =
                         IF records[i]["extension"] \in DOMAIN secrets
                         THEN secrets[records[i]["extension"]]
                         ELSE records[i]["password"]

\* Loaded: one device has its password from the secrets file, though its
\* record has another, the other device from its record.
C24_Witness ==
    /\ Ended(proc[1], "reload_inventory")
    /\ proc[1].result = "ok"
    /\ "password" \in DOMAIN FilePhones(fs[PHONES])[1]
    /\ inventory.phones[1]["password"] = "vault200"
    /\ inventory.phones[2]["password"] = "secret2"
    /\ "202" \in DOMAIN FileSecrets(fs[SECRETS])

\* What is left of a string when the whitespace around it and the
\* separators are taken away, in lower case.
Stripped(raw) ==
    SelectSeq([i \in 1..Len(Strip(raw)) |-> Lower(Strip(raw)[i])],
              LAMBDA c : c \notin {":", "-", "."})

\* C25: normalize_mac raises ValueError exactly for the strings whose
\* separator-stripped form is not 12 hexadecimal characters; what it
\* returns is 12 lowercase hexadecimal characters, and normalize_mac of
\* that returns the same.
C25_Normalize ==
    \A p \in Procs :
        LET l == proc[p]
        IN  Ended(l, "normalize_mac") =>
              /\ ~IsCanonical(Stripped(l.raw)) => l.result = "ValueError"
              /\ l.result # "ValueError" =>
                    /\ IsCanonical(l.mac)
                    /\ l.result = "ok"
                    /\ l.data["again"] = l.mac

\* format_mac has been called on normalize_mac of an identifier.
Formatted(l) == Ended(l, "format_mac") /\ IsCanonical(Stripped(l.raw))

\* C26: for every identifier x, every separator (none, colon, hyphen, dot)
\* and both cases, normalize_mac(format_mac(normalize_mac(x), separator,
\* uppercase)) is normalize_mac(x).
C26_RoundTrip ==
    \A p \in Procs :
        Formatted(proc[p]) =>
            /\ proc[p].result = "ok"
            /\ proc[p].data["back"] = proc[p].mac

\* An identifier spelled with colons came back from the dotted upper-case
\* form.
C26_Witness ==
    \E p \in Procs :
        /\ Formatted(proc[p])
        /\ proc[p].raw = Spelling(macU, <<":">>, FALSE, <<>>, <<>>)
        /\ proc[p].data["separator"] = <<".">>
        /\ proc[p].data["uppercase"]
        /\ proc[p].data["formatted"] # proc[p].mac
        /\ proc[p].data["back"] = macU

\* A vendor of the table has a prefix that, in upper case and without the
\* separators, is the first 6 characters of the identifier.
HasPrefixOf(entry, raw) ==
    \E j \in 1..Len(entry.prefixes) :
        upper(Stripped(entry.prefixes[j])) = upper(SubSeq(Stripped(raw), 1, 6))

\* C27: for an identifier in any spelling, detect_vendor returns a vendor
\* that has a prefix which, upper-cased and with the separators stripped,
\* is the first 6 canonical characters of the identifier, and returns None
\* exactly when no vendor of the table has one.
C27_Vendor ==
    \A p \in Procs :
        LET l == proc[p]
            oui_map == l.data["oui_map"]
            vendor == l.data["vendor"]
        IN  Ended(l, "detect_vendor") /\ IsCanonical(Stripped(l.raw)) =>
              /\ l.result = "ok"
              /\ vendor = "None" <=>
                    \A i \in 1..Len(oui_map) : ~HasPrefixOf(oui_map[i], l.raw)
              /\ vendor # "None" =>
                    \E i \in 1..Len(oui_map) :
                        /\ lower_name(oui_map[i].vendor) = vendor
                        /\ HasPrefixOf(oui_map[i], l.raw)

\* The client is not connected: no connect has succeeded yet, the last
\* connect failed, or the client has been disconnected since.
NotConnected(link) == link \in {"none", "failed", "disconnected"}

\* C29: reload_pjsip and verify_endpoint raise AsteriskError and send
\* nothing when the client is not connected, and return a boolean when it
\* is; connect on a connected client returns True and opens nothing.
C29_Connection ==
    ami.pc = "client" =>
        LET last == ami.last
        IN  /\ last.op \in {"reload_pjsip", "verify_endpoint"} =>
                IF NotConnected(last.link)
                THEN last.result = "AsteriskError" /\ last.sent = 0
                ELSE last.result \in {"True", "False"}
            /\ last.op = "connect" /\ ~NotConnected(last.link) =>
                last.result = "True" /\ last.opened = 0

\* A client that had connected and sent one action was disconnected, and
\* reload_pjsip then raised.
C29_Witness ==
    /\ ami.pc = "client"
    /\ ami.last.op = "reload_pjsip"
    /\ ami.last.link = "disconnected"
    /\ ami.last.result = "AsteriskError"
    /\ ami.opened = 1
    /\ ami.sent = 1

\* GET /{entry_id}, lines 97-106: the entry of the live directory at the
\* id, if there is one.
AtId(phonebook, entry_id, entry) ==
    /\ entry_id >= 0
    /\ entry_id < Len(phonebook)
    /\ phonebook[entry_id + 1] = entry

\* C30: when the create endpoint has answered, the entry is at the returned
\* id in the live directory (where get looks) and in the directory file
\* (where update and delete look), and the total is one more than before
\* the call; when a delete has succeeded the total is one less.
C30_CreatedId ==
    \A p \in Procs :
        LET l == proc[p]
        IN  /\ Ended(l, "create_phonebook_entry") /\ l.result = "ok" =>
                /\ AtId(inventory.phonebook, l.new_id, l.entry)
                /\ AtId(Directory(fs), l.new_id, l.entry)
                /\ Len(inventory.phonebook) = Len(l.pre.inventory.phonebook) + 1
            /\ Ended(l, "delete_phonebook_entry") /\ l.result = "ok" =>
                Len(inventory.phonebook) = Len(l.pre.inventory.phonebook) - 1

\* A device operation has returned successfully.
Succeeded(l, op) == Ended(l, op) /\ l.result = "ok"

\* What a device file holds beside the device records: the global block.
Beside(file) == [k \in (DOMAIN file.doc) \ {"phones"} |-> file.doc[k]]

\* The matched record after an update: same identifier, and every field the
\* update does not name as it was.
OnlyNamed(was, is, updates) ==
    /\ is["mac"] = was["mac"]
    /\ \A k \in (DOMAIN was) \cup (DOMAIN is) :
           k \notin DOMAIN updates => k \in DOMAIN was /\ k \in DOMAIN is /\ is[k] = was[k]

\* C31: a successful add_phone leaves the records of before in place and
\* puts the new one after them; a successful update_phone leaves the number
\* of records, every identifier, every other record and every field it
\* does not name as they were; a successful delete_phone takes out the
\* matched record only; the global block is as it was in all three.
C31_OnlyTheTarget ==
    \A p \in Procs :
        LET l   == proc[p]
            was == FilePhones(l.pre.fs[PHONES])
            is  == FilePhones(fs[PHONES])
            i   == FindPhone(was, l.mac)
        IN  /\ Succeeded(l, "add_phone") =>
                /\ Len(is) = Len(was) + 1
                /\ SubSeq(is, 1, Len(was)) = was
                /\ is[Len(is)]["mac"] = l.phone["mac"]
                /\ Beside(fs[PHONES]) = Beside(l.pre.fs[PHONES])
            /\ Succeeded(l, "update_phone") =>
                /\ Len(is) = Len(was)
                /\ \A j \in 1..Len(was) : j # i => is[j] = was[j]
                /\ OnlyNamed(was[i], is[i], l.updates)
                /\ Beside(fs[PHONES]) = Beside(l.pre.fs[PHONES])
            /\ Succeeded(l, "delete_phone") =>
                /\ is = Pop(was, i)
                /\ Beside(fs[PHONES]) = Beside(l.pre.fs[PHONES])

\* The first of three records was deleted: a device added after the two
\* the server started with, then the first one removed.
C31_Witness ==
    /\ Succeeded(proc[1], "delete_phone")
    /\ Len(FilePhones(proc[1].pre.fs[PHONES])) = 3
    /\ FindPhone(FilePhones(proc[1].pre.fs[PHONES]), proc[1].mac) = 1
    /\ FilePhones(fs[PHONES])[1]["label"] = "Lobby"
    /\ "global" \in DOMAIN fs[PHONES].doc

DirectoryOps == {"add_phonebook_entry", "update_phonebook_entry", "delete_phonebook_entry"}

DeviceOps == {"add_phone", "update_phone", "delete_phone", "update_global_settings"}

\* What a directory file holds beside the entries: the title and the
\* groups.
TitleAndGroups(file) == [k \in (DOMAIN file.doc) \ {"phonebook"} |-> file.doc[k]]

\* C32: when a directory operation has ended, the device file and the
\* secrets file are as the call found them and the directory file has the
\* title and the groups it had; when a device or global-settings operation
\* has ended, the directory file is as the call found it.
C32_OtherFiles ==
    \A p \in Procs :
        LET l == proc[p]
        IN  /\ (l.pc = "done" /\ l.op \in DirectoryOps) =>
                /\ fs[PHONES] = l.pre.fs[PHONES]
                /\ fs[SECRETS] = l.pre.fs[SECRETS]
                /\ TitleAndGroups(fs[PHONEBOOK]) = TitleAndGroups(l.pre.fs[PHONEBOOK])
            /\ (l.pc = "done" /\ l.op \in DeviceOps) =>
                fs[PHONEBOOK] = l.pre.fs[PHONEBOOK]

\* C33: when add_phone, update_phone or delete_phone has failed with
\* PersistenceError, the device file and the secrets file hold what they
\* held when the call was made.
C33_AllOrNothing ==
    \A p \in Procs :
        LET l == proc[p]
        IN  (/\ l.pc = "done"
             /\ l.op \in {"add_phone", "update_phone", "delete_phone"}
             /\ l.result = "PersistenceError") =>
                /\ Content(fs[PHONES]) = Content(l.pre.fs[PHONES])
                /\ Content(fs[SECRETS]) = Content(l.pre.fs[SECRETS])

\* No operation is under way and none has failed at a write: every call so
\* far has returned successfully or was rejected before it wrote.
AllSucceeded ==
    /\ faults = 0
    /\ \A p \in Procs : proc[p].pc \in {"idle", "done"}
    /\ \A p \in Procs : proc[p].pc = "done" => (proc[p].result = "ok" \/ Rejected(proc[p]))

\* The extensions of the records of the device file.
FileExtensions == {FilePhones(fs[PHONES])[i]["extension"] : i \in 1..Len(FilePhones(fs[PHONES]))}

\* C34: with a secrets file in use, after calls that all succeeded every
\* key of the secrets file is the extension of a record of the device
\* file.
C34_NoOrphanSecret ==
    (SecretsPresent /\ AllSucceeded) => DOMAIN FileSecrets(fs[SECRETS]) \subseteq FileExtensions

\* The credential a caller's add_phone or update_phone supplies, if any.
Supplied(l) ==
    IF l.op = "add_phone" /\ l.phone # EmptyDict THEN {l.phone["password"]}
    ELSE IF l.op = "update_phone" /\ "password" \in DOMAIN l.updates
    THEN {l.updates["password"]}
    ELSE {}

\* A record of the file has the credential in its password field.
HoldsPassword(file, pw) ==
    \E i \in 1..Len(FilePhones(file)) :
        /\ "password" \in DOMAIN FilePhones(file)[i]
        /\ FilePhones(file)[i]["password"] = pw

\* C35: with a secrets file in use, in no state, those inside an operation
\* included, does the device file or a backup of it hold a credential that
\* an add_phone or update_phone supplied.
C35_NeverInDeviceFile ==
    SecretsPresent =>
        \A p \in Procs : \A pw \in Supplied(proc[p]) :
            /\ ~HoldsPassword(fs[PHONES], pw)
            /\ \A n \in BackupsOf(backups, "phones") : ~HoldsPassword(backups[n], pw)

\* The credential load_inventory resolves for the device with a canonical
\* identifier, from the files fsys.
Resolved(fsys, mac) ==
    LET phones == load_inventory(fsys, secrets_file).value.phones
    IN  {phones[i]["password"] : i \in {j \in 1..Len(phones) : phones[j]["mac"] = mac}}

\* The canonical identifiers of the devices the files fsys load to.
Loaded(fsys) ==
    LET phones == load_inventory(fsys, secrets_file).value.phones
    IN  {phones[i]["mac"] : i \in 1..Len(phones)}

\* The call supplied a credential for the device.
SuppliedFor(l, mac) ==
    /\ Supplied(l) # {}
    /\ \/ l.op = "add_phone" /\ l.phone["mac"] = mac
       \/ l.op = "update_phone" /\ l.mac = mac

\* C36: when an operation has returned successfully, every device that
\* was loaded before the call and is loaded after it resolves to the same
\* credential, unless the call was an add_phone or update_phone that
\* supplied a credential for that device.
C36_NoSilentChange ==
    \A p \in Procs :
        LET l == proc[p]
        IN  (l.pc = "done" /\ l.result = "ok" /\ faults = 0) =>
                \A mac \in Loaded(l.pre.fs) \cap Loaded(fs) :
                    Resolved(fs, mac) # Resolved(l.pre.fs, mac) => SuppliedFor(l, mac)

\* Two add_phone calls for devices with distinct identifiers and distinct
\* extensions have both returned successfully.
BothAdded ==
    /\ \A p \in Procs : Succeeded(proc[p], "add_phone")
    /\ proc[1].phone["mac"] # proc[2].phone["mac"]
    /\ proc[1].phone["extension"] # proc[2].phone["extension"]

\* The device file has the record a caller added.
Stored(l) ==
    \E i \in 1..Len(FilePhones(fs[PHONES])) : FilePhones(fs[PHONES])[i] = l.phone

\* C37 as stated: when two interleaved add_phone calls for distinct devices
\* have both returned successfully, the device file has both new records.
C37_Original == BothAdded => \A p \in Procs : Stored(proc[p])

\* C37 amended: the device file is then the whole document one of the two
\* calls wrote, the records that call loaded and its own; it has the other
\* call's record exactly when that call had loaded it.
C37_Amended ==
    BothAdded =>
        \E p \in Procs :
            /\ FilePhones(fs[PHONES]) = proc[p].data["phones"]
            /\ Stored(proc[p])
            /\ \A q \in Procs :
                   Stored(proc[q]) <=>
                       \E i \in 1..Len(proc[p].data["phones"]) :
                           proc[p].data["phones"][i] = proc[q].phone

\* Both calls were under way at once, the second loaded the file after the
\* first had renamed, and both records are stored.
C37_Witness ==
    /\ BothAdded
    /\ \A p \in Procs : Stored(proc[p])
    /\ \A p \in Procs : proc[p].pre.fs[PHONES] = proc[3 - p].pre.fs[PHONES]
    /\ Len(FilePhones(fs[PHONES])) = 3

\* The record a delete_phone or update_phone call found, as it was stored.
Held(l) ==
    LET records == FilePhones(l.pre.fs[PHONES])
    IN  records[FindPhone(records, l.mac)]

\* The first caller's delete_phone has returned successfully and the
\* second caller's add_phone, of a well-formed mac that is the deleted
\* device's and of its extension, has ended.
AddedAfterDelete ==
    /\ Succeeded(proc[1], "delete_phone")
    /\ Ended(proc[2], "add_phone")
    /\ proc[2].result # "ValueError"
    /\ proc[2].phone["mac"] = proc[1].mac
    /\ proc[2].phone["extension"] = Held(proc[1])["extension"]

\* The first caller's update_phone has changed a device's extension and
\* returned successfully, and the second caller's add_phone, of a
\* well-formed mac that no stored device has, has ended.
AddedAfterMove ==
    /\ Succeeded(proc[1], "update_phone")
    /\ "extension" \in DOMAIN proc[1].updates
    /\ proc[1].updates["extension"] # Held(proc[1])["extension"]
    /\ Ended(proc[2], "add_phone")
    /\ proc[2].result # "ValueError"
    /\ WithMac(FilePhones(proc[2].pre.fs[PHONES]), proc[2].phone["mac"]) = {}

\* add_phone has returned successfully, or one of its writes has failed.
NotRefused(l) ==
    \/ l.result = "ok"
    \/ l.result \in {"PersistenceError", "OSError"} /\ l.w.failed # "none"

\* C38: after a successful delete_phone, an add_phone of the deleted
\* device's mac and extension is not refused; after a successful
\* update_phone that changes a device's extension, an add_phone of a new
\* device is not refused with the old extension and fails with
\* DuplicateExtensionError with the new one.  Not refused: it returns
\* successfully unless one of its own file writes fails.
C38_Released ==
    /\ AddedAfterDelete => NotRefused(proc[2])
    /\ AddedAfterMove =>
         /\ proc[2].phone["extension"] = Held(proc[1])["extension"]
               => NotRefused(proc[2])
         /\ proc[2].phone["extension"] = proc[1].updates["extension"]
               => proc[2].result = "DuplicateExtensionError"

\* A device moved from extension 200 to 201 and a new device was added on
\* extension 200, as stored.
C38_Witness ==
    /\ AddedAfterMove
    /\ Held(proc[1])["extension"] = "200"
    /\ proc[1].updates["extension"] = "201"
    /\ proc[2].phone["extension"] = "200"
    /\ proc[2].result = "ok"
    /\ Stored(proc[2])

\* The step that ends caller p's operation with an exception.
Raises(p) == proc[p].pc # "done" /\ proc'[p].pc = "done" /\ proc'[p].result # "ok"

\* The step that ends caller p's operation successfully: the last one of
\* the operation, _reload_inventory, after a last write that did not fail.
LastStep(p) == /\ proc[p].pc = "reload"
               /\ proc[p].w.failed = "none"
               /\ proc'[p].pc = "done"
               /\ proc'[p].result = "ok"

\* C39: the step at which a mutating operation raises, whatever the error
\* and wherever it is raised, leaves the live inventory as it was before
\* the call; the live inventory is replaced only by the last step of an
\* operation, after file writes that all succeeded.
C39_ReplacedLast ==
    [][ /\ \A p \in Procs :
              Raises(p) => inventory' = inventory /\ inventory' = proc'[p].pre.inventory
        /\ inventory' # inventory => \E p \in Procs : LastStep(p) ]_vars

\* delete_phone has raised PersistenceError after it wrote phones.yml: the
\* files load to an inventory without the device, the live inventory is
\* the one of before the call.
C39_Witness ==
    /\ Ended(proc[1], "delete_phone")
    /\ proc[1].result = "PersistenceError"
    /\ load_inventory(fs, secrets_file).ok
    /\ load_inventory(fs, secrets_file).value # inventory
    /\ inventory = proc[1].pre.inventory

====
